---- MODULE Spec2Model ----
(***************************************************************************)
(* Price parsing, record normalisation, aggregation and cheapest-product   *)
(* selection of the beauty_product_analysis scripts.                       *)
(*                                                                         *)
(* Strings are sequences of one-character strings.  A float is a record    *)
(* [sign, ip, fp]: sign is 1 or -1, ip the integer part and fp the         *)
(* fraction in units of 10^-FracDigits, so that decimal literals of up to  *)
(* FracDigits fractional digits are represented exactly.                   *)
(***************************************************************************)
EXTENDS Integers, Sequences, FiniteSets, TLC

\* ---------------------------------------------------------------- bounds
\* longest raw price string that is enumerated
MaxLen == 5

\* fractional digits a float keeps exactly (more than any enumerated string has)
FracDigits == 8

\* ------------------------------------------------------------ characters
\* characters the enumerated raw price strings are made of: a currency
\* symbol, two digits, the decimal point, the hyphen, a blank, a thousands
\* comma and a letter
Alphabet == {"$", "1", "2", ".", "-", " ", ",", "f"}

DigitChars == {"0", "1", "2", "3", "4", "5", "6", "7", "8", "9"}

DigitVal(c) ==
    CASE c = "0" -> 0 [] c = "1" -> 1 [] c = "2" -> 2 [] c = "3" -> 3
      [] c = "4" -> 4 [] c = "5" -> 5 [] c = "6" -> 6 [] c = "7" -> 7
      [] c = "8" -> 8 [] c = "9" -> 9

RECURSIVE Pow10(_)
Pow10(n) == IF n = 0 THEN 1 ELSE 10 * Pow10(n - 1)

StringsUpTo(n) == UNION {[1..k -> Alphabet] : k \in 0..n}

\* ---------------------------------------------------------------- floats
MkNum(sign, ip, fp) == [sign |-> sign, ip |-> ip, fp |-> fp]

Zero == MkNum(1, 0, 0)

\* a <= b on the magnitudes
MagLE(a, b) == a.ip < b.ip \/ (a.ip = b.ip /\ a.fp <= b.fp)

\* a <= b, a < b
NumLE(a, b) ==
    IF a.sign # b.sign THEN a.sign < b.sign
    ELSE IF a.sign = 1 THEN MagLE(a, b) ELSE MagLE(b, a)

NumLT(a, b) == NumLE(a, b) /\ a # b

NonNegative(v) == NumLE(Zero, v)

\* a min() that hands back the first element
PyMinFirst(vs) == vs[1]

\* Python's min() over a non-empty list: the first smallest element
RECURSIVE PyMin(_)
PyMin(vs) ==
    IF Len(vs) = 1 THEN vs[1]
    ELSE LET m == PyMin(SubSeq(vs, 1, Len(vs) - 1))
         IN  IF NumLT(vs[Len(vs)], m) THEN vs[Len(vs)] ELSE m

\* --------------------------------------------------------------- strings
Contains(s, c) == \E i \in DOMAIN s : s[i] = c

\* str.replace(c, ''): every occurrence of the character c removed
Remove(s, c) == SelectSeq(s, LAMBDA ch : ch # c)

\* a substitution that removes the currency symbol only
SubDollarOnly(s) == SelectSeq(s, LAMBDA ch : ch # "$")

\* re.sub(r'[^\d.]', '', s): every character but digits and '.' removed
SubNonDigitDot(s) == SelectSeq(s, LAMBDA ch : ch \in DigitChars \cup {"."})

\* str.strip(): leading and trailing blanks removed
RECURSIVE Strip(_)
Strip(s) ==
    IF s = <<>> THEN s
    ELSE IF s[1] = " " THEN Strip(Tail(s))
    ELSE IF s[Len(s)] = " " THEN Strip(SubSeq(s, 1, Len(s) - 1))
    ELSE s

\* sep occurs in s at position i
OccursAt(s, sep, i) ==
    /\ i + Len(sep) - 1 <= Len(s)
    /\ SubSeq(s, i, i + Len(sep) - 1) = sep

HasSubstring(s, sep) == \E i \in 1..Len(s) : OccursAt(s, sep, i)

\* str.split(sep): the pieces between the non-overlapping occurrences of sep,
\* found left to right
RECURSIVE Split(_, _)
Split(s, sep) ==
    IF ~HasSubstring(s, sep) THEN <<s>>
    ELSE LET i == CHOOSE j \in 1..Len(s) :
                    /\ OccursAt(s, sep, j)
                    /\ \A k \in 1..(j - 1) : ~OccursAt(s, sep, k)
         IN  <<SubSeq(s, 1, i - 1)>> \o Split(SubSeq(s, i + Len(sep), Len(s)), sep)

RECURSIVE DigitsVal(_)
DigitsVal(s) ==
    IF s = <<>> THEN 0
    ELSE 10 * DigitsVal(SubSeq(s, 1, Len(s) - 1)) + DigitVal(s[Len(s)])

\* a float() that reads the empty string and a lone '.' as zero
IsDecimalLoose(t) ==
    /\ \A i \in DOMAIN t : t[i] \in DigitChars \cup {"."}
    /\ Cardinality({i \in DOMAIN t : t[i] = "."}) <= 1

\* the decimal literals float() accepts among the strings over digits, '.',
\* '$', '-', ',', blanks and letters other than e, i, n, a: digits with
\* at most one '.', at least one digit, blanks around it ignored
IsDecimal(t) ==
    /\ t # <<>>
    /\ \A i \in DOMAIN t : t[i] \in DigitChars \cup {"."}
    /\ Cardinality({i \in DOMAIN t : t[i] = "."}) <= 1
    /\ \E i \in DOMAIN t : t[i] \in DigitChars

DecimalVal(t) ==
    LET d  == IF Contains(t, ".") THEN CHOOSE i \in DOMAIN t : t[i] = "." ELSE Len(t) + 1
        fr == SubSeq(t, d + 1, Len(t))
    IN  MkNum(1, DigitsVal(SubSeq(t, 1, d - 1)), DigitsVal(fr) * Pow10(FracDigits - Len(fr)))

\* float(s) succeeds / its value
PyFloatOk(s) == IsDecimal(Strip(s))

PyFloat(s) == DecimalVal(Strip(s))

\* ------------------------------------------------------ raw price values
StrRaw(s) == [kind |-> "str", s |-> s]

NumRaw(v) == [kind |-> "num", v |-> v]

\* None: the value is missing
NoneRaw == [kind |-> "none"]

\* the numbers a JSON payload carries as a price: negative, zero, positive
NumInputs == {MkNum(-1, 1, 0), Zero, MkNum(1, 1, 5 * Pow10(FracDigits - 1)), MkNum(1, 2, 0)}

RawPriceValues ==
    {StrRaw(s) : s \in StringsUpTo(MaxLen)} \cup {NumRaw(v) : v \in NumInputs} \cup {NoneRaw}

\* ------------------------------------------------------- call outcomes
Returned(v) == [kind |-> "num", v |-> v]

ReturnedNone == [kind |-> "none"]

ReturnedList(vs) == [kind |-> "list", vs |-> vs]

Raised(exc) == [kind |-> "raised", exc |-> exc]

NotCalled == [kind |-> "pending"]

\* ------------------------------------------------------------ the parsers
\* the value organize.py stands in for an unparseable price
SentinelPrice == 9999

Sentinel == MkNum(1, SentinelPrice, 0)

\* organize.py
extract_min_price(price_str) ==
    IF price_str.kind = "num" THEN Returned(price_str.v)
    ELSE IF price_str.kind = "none" THEN Raised("AttributeError")
    ELSE LET s == Remove(price_str.s, "$") IN
         IF Contains(s, "-")
         THEN LET parts == Split(s, <<"-">>) IN
              IF \A i \in DOMAIN parts : PyFloatOk(Strip(parts[i]))
              THEN Returned(PyMin([i \in DOMAIN parts |-> PyFloat(Strip(parts[i]))]))
              ELSE Raised("ValueError")
         ELSE IF PyFloatOk(s) THEN Returned(PyFloat(s))
         ELSE Returned(Sentinel)

\* target_data_processor.py
parse_price(price_str) ==
    IF price_str.kind # "str" THEN Raised("TypeError")
    ELSE IF HasSubstring(price_str.s, <<" ", "-", " ">>)
    THEN LET prices == Split(price_str.s, <<" ", "-", " ">>) IN
         IF \A i \in DOMAIN prices : PyFloatOk(SubNonDigitDot(prices[i]))
         THEN ReturnedList([i \in DOMAIN prices |-> PyFloat(SubNonDigitDot(prices[i]))])
         ELSE Raised("ValueError")
    ELSE IF PyFloatOk(SubNonDigitDot(price_str.s))
         THEN ReturnedList(<<PyFloat(SubNonDigitDot(price_str.s))>>)
         ELSE Raised("ValueError")

\* the maximal run of digits of s that starts at position i (empty if none)
RECURSIVE DigitRun(_, _)
DigitRun(s, i) ==
    IF i > Len(s) \/ s[i] \notin DigitChars THEN <<>>
    ELSE <<s[i]>> \o DigitRun(s, i + 1)

\* \d+\.\d+ matches at position i of s
DecimalAt(s, i) ==
    LET a == DigitRun(s, i) IN
    /\ a # <<>>
    /\ i + Len(a) <= Len(s)
    /\ s[i + Len(a)] = "."
    /\ DigitRun(s, i + Len(a) + 1) # <<>>

\* the text \d+\.\d+ matches at position i
DecimalTextAt(s, i) ==
    LET a == DigitRun(s, i) IN a \o <<".">> \o DigitRun(s, i + Len(a) + 1)

\* re.findall(r'\$(\d+\.\d+)', s): the start positions of the groups
DollarMatches(s) == {i \in 2..Len(s) : s[i - 1] = "$" /\ DecimalAt(s, i)}

\* re.findall(r'(\d+\.\d+)', s): the start position of the leftmost match
\* is the least position where the pattern matches
PlainMatches(s) == {i \in 1..Len(s) : DecimalAt(s, i)}

Least(S) == CHOOSE i \in S : \A j \in S : i <= j

\* makeup_price_comparison.py
extract_price(price_str) ==
    IF price_str.kind = "none" THEN ReturnedNone
    ELSE IF price_str.kind = "num"
    THEN IF price_str.v = Zero THEN ReturnedNone ELSE Raised("TypeError")
    ELSE LET s == price_str.s IN
         IF s = <<>> THEN ReturnedNone
         ELSE IF DollarMatches(s) # {}
         THEN Returned(PyFloat(DecimalTextAt(s, Least(DollarMatches(s)))))
         ELSE IF PlainMatches(s) # {}
         THEN Returned(PyFloat(DecimalTextAt(s, Least(PlainMatches(s)))))
         ELSE ReturnedNone

\* ------------------------------------------------ organize.py: records
\* most items of one raw input file that are enumerated
MaxItems == 2

\* an optional field of a JSON object: <<>> when the key is missing,
\* <<value>> when it is present
Missing == <<>>

Present(v) == <<v>>

\* dict.get(key, default)
Get(field, default) == IF field = Missing THEN default ELSE field[1]

\* the name organize.py gives an item that has no title or name
Placeholder == "Unknown"

\* the raw prices the items of an input file carry: a range, a word, a
\* range with a word in it, a negative and a positive number
ItemPrices ==
    { StrRaw(<<"2", "-", "1">>), StrRaw(<<"f">>), StrRaw(<<"1", "-", "f">>),
      NumRaw(MkNum(-1, 1, 0)), NumRaw(MkNum(1, 1, 5 * Pow10(FracDigits - 1))) }

\* the raw items of a store's result file: an optional title, an optional
\* name, an optional price
RawItems ==
    [ title : {Missing, Present("a")},
      name  : {Missing, Present("b")},
      price : {Missing} \cup {Present(r) : r \in ItemPrices} ]

RawFiles == UNION {[1..k -> RawItems] : k \in 0..MaxItems}

ProductRecord(store, name, price) == [store |-> store, name |-> name, price |-> price]

\* one dictionary literal of the loop: the record, or the exception that
\* extract_min_price raised
StandardizeTarget(item) ==
    LET r == extract_min_price(Get(item.price, StrRaw(<<"9", "9", "9", "9">>))) IN
    IF r.kind = "raised" THEN r
    ELSE ProductRecord("target", Get(item.title, Placeholder), r.v)

StandardizeRiteaid(item) ==
    LET r == extract_min_price(Get(item.price, NumRaw(Sentinel))) IN
    IF r.kind = "raised" THEN r
    ELSE ProductRecord("riteaid", Get(item.name, Placeholder), r.v)

StandardizeUlta(item) ==
    LET r == extract_min_price(Get(item.price, NumRaw(Sentinel))) IN
    IF r.kind = "raised" THEN r
    ELSE ProductRecord("ulta", Get(item.title, Get(item.name, Placeholder)), r.v)

IsRaised(x) == "kind" \in DOMAIN x

\* a sort that leaves the list as it is
Unsorted(recs) == recs

\* list.sort(key=price): stable, so a record goes behind the records that
\* are not dearer
RECURSIVE SortByPrice(_)
SortByPrice(recs) ==
    IF recs = <<>> THEN <<>>
    ELSE LET front  == SortByPrice(SubSeq(recs, 1, Len(recs) - 1))
             x      == recs[Len(recs)]
             before == SelectSeq(front, LAMBDA r : NumLE(r.price, x.price))
             after  == SelectSeq(front, LAMBDA r : ~NumLE(r.price, x.price))
         IN  before \o <<x>> \o after

NothingWritten == [written |-> FALSE, records |-> <<>>]

Written(recs) == [written |-> TRUE, records |-> recs]

\* the body shared by process_target_data, process_riteaid_data and
\* process_ulta_data: the loop builds the records, stopping at the first
\* exception; the records are sorted and written.  built holds, for each
\* item, the record of its dictionary literal or the exception raised
ProcessItems(built) ==
    IF \E i \in DOMAIN built : IsRaised(built[i])
    THEN [out |-> NothingWritten,
          outcome |-> built[Least({i \in DOMAIN built : IsRaised(built[i])})]]
    ELSE [out |-> Written(SortByPrice(built)), outcome |-> [kind |-> "done"]]

process_target_data(items) ==
    ProcessItems([i \in DOMAIN items |-> StandardizeTarget(items[i])])

\* has_products: the document has the "products" key
process_riteaid_data(items, has_products) ==
    ProcessItems(IF has_products
                 THEN [i \in DOMAIN items |-> StandardizeRiteaid(items[i])]
                 ELSE <<>>)

process_ulta_data(items) ==
    ProcessItems([i \in DOMAIN items |-> StandardizeUlta(items[i])])

\* ------------------------------------------- target_scraper.py: products
\* most product containers on one result page
MaxPerPage == 2

\* most products extracted over one scrape
MaxSeen == 4

\* the max_pages argument of the scrape
MaxPages == 3

\* most product elements on one page of search results
MaxElements == 1

\* most category blocks in one file of notebook output
MaxBlocks == 3

\* most products a store returns for one product type
MaxCompared == 2

\* most products logged in one section of the Ulta output
MaxLogged == 2

\* a product container of a result page: whether a title element is found,
\* its title attribute, its text, and the product number of its link
Container(found, attr, text, tcin) ==
    [found |-> found, attr |-> attr, text |-> text, tcin |-> tcin]

Containers ==
    { Container(FALSE, <<>>, <<>>, 1),
      Container(TRUE, <<>>, <<" ">>, 1),
      Container(TRUE, <<" ", "a">>, <<>>, 1),
      Container(TRUE, <<>>, <<"a", " ">>, 2),
      Container(TRUE, <<>>, <<"b">>, 1) }

Pages == UNION {[1..k -> Containers] : k \in 0..MaxPerPage}

\* title_elem.get('title', '').strip() or title_elem.text.strip()
TitleOf(c) == IF Strip(c.attr) # <<>> THEN Strip(c.attr) ELSE Strip(c.text)

\* the dictionary built for a container: the title only if an element was found
ProductOf(c) ==
    [title |-> IF c.found THEN Present(TitleOf(c)) ELSE Missing, tcin |-> c.tcin, store |-> ""]

\* 'title' in product and product['title']
HasTitle(product) == product.title # Missing /\ product.title[1] # <<>>

\* a check that accepts every product that has the key
HasTitleKey(product) == product.title # Missing

\* the test that guards products.append(product)
KeepsProduct(product) == HasTitle(product)

\* extract_products: the products of the containers that have a title, in
\* page order
extract_products(product_containers) ==
    SelectSeq([i \in DOMAIN product_containers |-> ProductOf(product_containers[i])],
              KeepsProduct)

\* a membership test that never finds the key
NeverSeen(key, unique_products) == TRUE

\* product_key not in unique_products
NotYetSeen(key, unique_products) == key \notin unique_products

\* the loop over page_products: a product is added when it has a title and
\* its stripped title is not yet a key of unique_products; the added product
\* carries the store
RECURSIVE AddUnique(_, _, _)
AddUnique(page_products, all_products, unique_products) ==
    IF page_products = <<>>
    THEN [all_products |-> all_products, unique_products |-> unique_products]
    ELSE LET product == page_products[1]
             product_key == Strip(product.title[1])
         IN  IF HasTitle(product) /\ NotYetSeen(product_key, unique_products)
             THEN AddUnique(Tail(page_products),
                            Append(all_products, [product EXCEPT !.store = "target"]),
                            unique_products \cup {product_key})
             ELSE AddUnique(Tail(page_products), all_products, unique_products)

\* a page count that takes what the site reports, whatever the limit
Unlimited(a, b) == a

\* min(get_total_pages(driver), max_pages)
Min2(a, b) == IF a <= b THEN a ELSE b

\* ---------------------------------------------- routine_analysis.py: data
\* most products in one file of sorted_data
MaxFileLen == 2

\* most products loaded over one load_data
MaxProducts == 2

Stores == <<"target", "riteaid", "ulta">>

\* the first categories of the list of load_data
Categories == <<"blush", "concealer">>

NumDirs == Len(Stores) * Len(Categories)

\* the directory the k-th pass of the nested loops looks at
DirStore(k) == Stores[((k - 1) \div Len(Categories)) + 1]

DirCategory(k) == Categories[((k - 1) % Len(Categories)) + 1]

\* the prices the records of the files carry: two prices and null
FilePrices == {NumRaw(MkNum(1, 1, 0)), NumRaw(MkNum(1, 2, 0)), NoneRaw}

\* the category key of a record of a file: missing, as organize.py writes
\* the records, or present with a category that is not in the list of
\* load_data
FileCategories == {Missing, Present("serum")}

\* the records of a file of sorted_data/<store>/<category>: the store is the
\* one process_<store>_data writes
FileRecords(store) ==
    [store : {store}, name : {"a"}, price : FilePrices, category : FileCategories]

FilesOf(store) == UNION {[1..k -> FileRecords(store)] : k \in 0..MaxFileLen}

\* two JSON files of one directory, with one product each
FilePair(store) ==
    << <<[store |-> store, name |-> "a", price |-> NumRaw(MkNum(1, 2, 0)), category |-> Missing]>>,
       <<[store |-> store, name |-> "b", price |-> NumRaw(MkNum(1, 1, 0)), category |-> Missing]>> >>

\* glob.glob(category_dir/*.json): no file, one file, or the two files of
\* the pair
Listings(store) == {<<>>} \cup {<<f>> : f \in FilesOf(store)} \cup {FilePair(store)}

\* the positions another listing order of the same files can put first
\* (0: there is no file)
FirstPositions(json_files) == IF json_files = <<>> THEN {0} ELSE DOMAIN json_files

\* the products of the file at position k of the listing
ProductsAt(json_files, k) == IF k = 0 THEN <<>> ELSE json_files[k]

\* a loop that leaves the products as they were read
KeepAsRead(products, category) == products

\* a loop that sets the category of every product to the directory's
OverwriteCategory(products, category) ==
    [i \in DOMAIN products |-> [products[i] EXCEPT !.category = Present(category)]]

\* the loop over the products of a file: the category of the directory is
\* added to each product that has no 'category' key
WithCategory(products, category) ==
    [i \in DOMAIN products |->
        [store |-> products[i].store, name |-> products[i].name,
         price |-> products[i].price,
         category |-> IF products[i].category = Missing
                      THEN Present(category) ELSE products[i].category]]

\* pd.to_numeric(errors='coerce') on one cell: a number stays, a numeric
\* string is parsed, everything else becomes NaN (a missing price)
ToNumeric(cell) ==
    IF cell.kind = "num" THEN Present(cell.v)
    ELSE IF cell.kind = "str" /\ PyFloatOk(cell.s) THEN Present(PyFloat(cell.s))
    ELSE Missing

\* pd.DataFrame(all_products) with the price column made numeric; row i of
\* the sequence has index label i - 1; a key a record lacks is NaN in its row
DataFrame(all_products) ==
    [i \in DOMAIN all_products |->
        [store |-> all_products[i].store, name |-> all_products[i].name,
         category |-> Get(all_products[i].category, "NaN"),
         price |-> ToNumeric(all_products[i].price)]]

\* the key of a row under groupby(by)
KeyBy(row, by) ==
    IF by = "store, category" THEN <<row.store, row.category>> ELSE <<row.category>>

GroupKey(row) == KeyBy(row, "store, category")

\* the group keys of the categories of load_data only
KnownKeys ==
    << <<"riteaid", "blush">>, <<"riteaid", "concealer">>,
       <<"target", "blush">>, <<"target", "concealer">>,
       <<"ulta", "blush">>, <<"ulta", "concealer">> >>

\* the group keys in the sorted order groupby yields them (rows with a NaN
\* key are in no group)
SortedKeys ==
    << <<"riteaid", "blush">>, <<"riteaid", "concealer">>, <<"riteaid", "serum">>,
       <<"target", "blush">>, <<"target", "concealer">>, <<"target", "serum">>,
       <<"ulta", "blush">>, <<"ulta", "concealer">>, <<"ulta", "serum">> >>

\* the keys of groupby('category'), sorted
CategoryKeys == << <<"blush">>, <<"concealer">>, <<"serum">> >>

RowsOf(df, by, key) == {i \in DOMAIN df : KeyBy(df[i], by) = key}

Priced(df, rows) == {i \in rows : df[i].price # Missing}

\* a selection that takes the first priced row of the group
IdxFirst(df, rows) == CHOOSE i \in Priced(df, rows) : \A j \in Priced(df, rows) : i <= j

\* Series.idxmin() over the rows of one group, NaN skipped: the first row
\* that has the smallest price
IdxMin(df, rows) ==
    CHOOSE i \in Priced(df, rows) :
        \A j \in Priced(df, rows) :
            \/ NumLT(df[i].price[1], df[j].price[1])
            \/ (df[i].price[1] = df[j].price[1] /\ i <= j)

Selected(rows) == [kind |-> "rows", rows |-> rows]

\* df.loc[df.groupby(keys)['price'].idxmin()]: the rows idxmin names, in the
\* order of the sorted group keys.  A group without a price has no idxmin
\* (NaN in pandas 1 and 2, where df.loc then raises KeyError; pandas 3
\* raises ValueError in idxmin itself): the call raises.
LocIdxMin(df, by, sorted_keys) ==
    LET keys == SelectSeq(sorted_keys, LAMBDA k : RowsOf(df, by, k) # {}) IN
    IF \E n \in DOMAIN keys : Priced(df, RowsOf(df, by, keys[n])) = {}
    THEN Raised("KeyError")
    ELSE Selected([n \in DOMAIN keys |-> IdxMin(df, RowsOf(df, by, keys[n]))])

\* routine_analysis.py and price_comparisons.py
get_cheapest_products(df) ==
    IF df = <<>> THEN Selected(<<>>) ELSE LocIdxMin(df, "store, category", SortedKeys)

\* routine_analysis.py
get_cheapest_overall(df) ==
    IF df = <<>> THEN Selected(<<>>) ELSE LocIdxMin(df, "category", CategoryKeys)

\* --------------------------------- ulta_parser.py, process_riteaid_data.py
\* longest category heading that is enumerated
MaxCatLen == 4

\* the characters of the category headings: an upper-case and two lower-case
\* letters and the blank
CatAlphabet == {"E", "e", "g", " "}

CategoryNames == UNION {[1..k -> CatAlphabet] : k \in 0..MaxCatLen}

\* str.lower()
Lower(s) == [i \in DOMAIN s |-> IF s[i] = "E" THEN "e" ELSE s[i]]

\* str.replace(' ', '_'): every blank becomes an underscore
ReplaceBlanks(s) == [i \in DOMAIN s |-> IF s[i] = " " THEN "_" ELSE s[i]]

\* a replace that turns a run of blanks into one underscore
RECURSIVE CollapseBlanks(_)
CollapseBlanks(s) ==
    IF s = <<>> THEN <<>>
    ELSE IF s[1] # " " THEN <<s[1]>> \o CollapseBlanks(Tail(s))
    ELSE IF Len(s) > 1 /\ s[2] = " " THEN CollapseBlanks(Tail(s))
    ELSE <<"_">> \o CollapseBlanks(Tail(s))

\* category = match.group(1).strip().lower().replace(' ', '_')
parse_ulta_category(group) == ReplaceBlanks(Lower(Strip(group)))

\* category_name = match.group(1).strip();
\* filename_category = category_name.lower().replace(' ', '_')
riteaid_filename_category(group) == ReplaceBlanks(Lower(Strip(group)))

\* ------------------------------------------------- organize.py: files
\* most JSON files in one results directory
MaxResultFiles == 2

\* the names of the files of a results directory, as sequences of words,
\* '_' and '.'
Basenames ==
    { <<"target", "_", "blush", ".", "json">>,
      <<"target", "_", "blush", "_", "2", ".", "json">>,
      <<"blush", ".", "json">>,
      <<"notes", ".", "txt">> }

\* file.endswith(".json")
EndsWithJson(basename) ==
    Len(basename) >= 2 /\ SubSeq(basename, Len(basename) - 1, Len(basename)) = <<".", "json">>

\* an item with a title, a name and a price, and one whose price is a range
\* with a word in it
GoodItem ==
    [title |-> Present("a"), name |-> Present("b"),
     price |-> Present(NumRaw(MkNum(1, 1, 5 * Pow10(FracDigits - 1))))]

BrokenItem ==
    [title |-> Present("a"), name |-> Present("b"),
     price |-> Present(StrRaw(<<"1", "-", "f">>))]

\* the files of a results directory: the name, the items, and the
\* "category" key of a Rite Aid document
ResultFiles ==
    [basename : Basenames, items : {<<GoodItem>>, <<BrokenItem>>},
     category : {Missing, Present(<<"serum">>)}]

\* os.path.basename(file_path).split('_')[1].split('.')[0]
SecondPart(basename) == Split(Split(basename, <<"_">>)[2], <<".">>)[1]

\* os.path.basename(file_path).split('.')[0]
FirstPart(basename) == Split(basename, <<".">>)[1]

FileName(name) == [kind |-> "name", name |-> name]

\* the name of the output file of process_<store>_data, or the IndexError of
\* split('_')[1] on a name without '_' (the default of data.get is computed
\* whether the document has the key or not)
OutputName(store, file) ==
    IF store = "ulta"
    THEN FileName(<<"ulta", "_">> \o (IF Contains(file.basename, "_")
                                      THEN SecondPart(file.basename)
                                      ELSE FirstPart(file.basename)) \o <<".", "json">>)
    ELSE IF ~Contains(file.basename, "_") THEN Raised("IndexError")
    ELSE IF store = "target"
    THEN FileName(<<"target", "_">> \o SecondPart(file.basename) \o <<".", "json">>)
    ELSE FileName(<<"riteaid", "_">> \o Get(file.category, SecondPart(file.basename))
                    \o <<".", "json">>)

\* the records process_<store>_data builds from the items and sorts
ProcessedData(store, file) ==
    IF store = "target" THEN process_target_data(file.items)
    ELSE IF store = "riteaid" THEN process_riteaid_data(file.items, TRUE)
    ELSE process_ulta_data(file.items)

\* an output directory that is the same for every call
SharedDir(store, category) == <<"sorted_data">>

\* output_dir as main passes it: sorted_data/<store>/<category>
OutputDir(store, category) == <<"sorted_data", store, category>>

\* a file of the tree of sorted_data: its directory, its name, its content
\* and the run that wrote it
FileEntry(dir, name, records, run) ==
    [dir |-> dir, file |-> name, records |-> records, run |-> run]

\* open(output_file, 'w') and json.dump: the file is created, or replaced
WriteFile(tree, entry) ==
    {e \in tree : ~(e.dir = entry.dir /\ e.file = entry.file)} \cup {entry}

\* one call of process_<store>_data(file_path, output_dir): the exception
\* raised by the loop or by the file name, or the tree with the file written
ProcessFile(tree, store, category, file) ==
    LET data == ProcessedData(store, file)
        name == OutputName(store, file)
    IN  IF data.outcome.kind = "raised" THEN [tree |-> tree, outcome |-> data.outcome]
        ELSE IF name.kind = "raised" THEN [tree |-> tree, outcome |-> name]
        ELSE [tree |-> WriteFile(tree, FileEntry(OutputDir(store, category), name.name,
                                                 data.out.records, "this")),
              outcome |-> [kind |-> "done"]]

\* an rmtree that removes nothing
KeepTree(tree) == tree

\* shutil.rmtree(base_dir) and the directories made anew: no file is left
Rmtree(tree) == {}

\* what an earlier run left in sorted_data
EarlierTrees ==
    { {},
      {FileEntry(OutputDir("target", "blush"), <<"target", "_", "blush", ".", "json">>,
                 <<>>, "earlier")},
      {FileEntry(OutputDir("ulta", "concealer"), <<"ulta", "_", "old", ".", "json">>,
                 <<>>, "earlier")} }

\* the calls of process_<store>_data that are made side by side: a store, a
\* category and a file of its results directory
ConcFiles ==
    [basename : {<<"target", "_", "blush", ".", "json">>},
     items : {<<>>, <<GoodItem>>, <<BrokenItem>>},
     category : {Missing, Present(<<"serum">>)}]

ConcCalls ==
    [store : {Stores[i] : i \in DOMAIN Stores},
     category : {Categories[i] : i \in DOMAIN Categories},
     file : ConcFiles]

\* the file a call writes: the entry, once its content is dumped
EntryOf(call) ==
    FileEntry(OutputDir(call.store, call.category), OutputName(call.store, call.file).name,
              ProcessedData(call.store, call.file).out.records, "this")

\* the call raises before it opens its output file
CallRaises(call) ==
    \/ ProcessedData(call.store, call.file).outcome.kind = "raised"
    \/ OutputName(call.store, call.file).kind = "raised"

\* ------------------------------------------------------------------ state
VARIABLES
    price_str,          \* the raw price value handed to a price parser
    parser,             \* the parser that was called on it ("" before the call)
    price_result,       \* what the call produced
    raw_items,          \* organize.py: the items of the input file being processed
    org_call,           \* the process_*_data function called on it ("" before)
    org_outcome,        \* how the call ended: done, or the exception raised
    output_file,        \* the normalized file the call wrote
    product_containers, \* extract_products: the containers of the page
    products,           \* extract_products: the list returned
    scrape_pc,          \* scrape_target_products: start, loop, final, returned
    total_pages,        \* scrape_target_products: pages to process
    page_num,           \* the page the loop is at
    page_products,      \* the products extracted from the last page
    all_products,       \* the products collected
    unique_products,    \* the keys of the dictionary of collected titles
    saved_file,         \* the content of the scrape's output file, if written
    seen,               \* history: every product the pages yielded, in order
    site_pages,         \* history: the page count get_total_pages reported
    pages_done,         \* history: each page the loop processed, in order, and
                        \* whether it yielded products
    load_pc,            \* load_data and the selectors: loading, loaded, selected
    dir_num,            \* load_data: the pass of the nested loops
    loaded_products,    \* load_data: all_products
    df,                 \* the DataFrame load_data returns
    cheapest,           \* what get_cheapest_products returned
    cheapest_overall,   \* what get_cheapest_overall returned
    origin,             \* history: for each loaded product, the category of its
                        \* directory and the category key it had in the file
    listed,             \* history: the products of every JSON file of the
                        \* directories gone through, each with its category
    loaded_again,       \* a second load_data on the same sorted_data: all_products
    df_again,           \* the DataFrame the second load_data returns
    cheapest_again,     \* what get_cheapest_products returned on it
    category_name,      \* the category heading a parser matched
    cat_parser,         \* the parser that normalized it ("" before)
    category_id,        \* the category identifier it produced
    main_pc,            \* organize.py main: start, run, done, raised
    main_dir,           \* the pass of the loops over the results directories
    main_file,          \* the files of the directory the inner loop has been through
    sorted_data,        \* the files of the tree of sorted_data
    earlier,            \* history: the files sorted_data held when main started
    conc_calls,         \* the two calls of process_<store>_data made side by side
    conc_pc,            \* where each of them is: start, built, opened, returned, raised
    conc_fs,            \* the files of the tree they write to
    overlapped,         \* history: a call took a step while the other was under way
    search_fn,          \* makeup_price_comparison.py: the paging function called
    max_pages,          \* its max_pages argument
    current_page,       \* current_page of riteaid_scrape_products, page of
                        \* target_get_all_products
    found_products,     \* its all_products
    search_pc,          \* where it is: loop, returned
    responses,          \* history: what the server answered to each request
    category_blocks,    \* process_riteaid_output: the category blocks of the input
    riteaid_count,      \* what the call returned
    results_dir,        \* the files it wrote: category and products
    blocks_processed,   \* history: the positions of the blocks it processed
    raw_products,       \* get_cheapest_products: the price objects of the products
                        \* of the Target payload for the product type
    price_texts,        \* the price texts of the Rite Aid product elements
    all_results,        \* its all_results
    section_text,       \* ulta_parser.py extract_products: the products logged in
                        \* the section, each with the lines it has
    ulta_products,      \* the list it returned
    analysis_df,        \* routine_analysis.py main: the DataFrame load_data returned
    routine_df,         \* what create_improved_stacked_bar returned
    strategy_totals     \* create_improved_savings_analysis: the table of totals

priceVars == <<price_str, parser, price_result>>

orgVars == <<raw_items, org_call, org_outcome, output_file>>

extractVars == <<product_containers, products>>

scrapeVars ==
    <<scrape_pc, total_pages, page_num, page_products, all_products,
      unique_products, saved_file, seen, site_pages, pages_done>>

loadVars ==
    <<load_pc, dir_num, loaded_products, df, cheapest, cheapest_overall, origin,
      listed, loaded_again, df_again, cheapest_again>>

catVars == <<category_name, cat_parser, category_id>>

mainVars == <<main_pc, main_dir, main_file, sorted_data, earlier>>

concVars == <<conc_calls, conc_pc, conc_fs, overlapped>>

searchVars ==
    <<search_fn, max_pages, current_page, found_products, search_pc, responses>>

\* the scripts outside the organize and analysis pipeline
blockVars == <<category_blocks, riteaid_count, results_dir, blocks_processed>>

compareVars == <<raw_products, price_texts, all_results>>

ultaVars == <<section_text, ulta_products>>

routineVars == <<analysis_df, routine_df, strategy_totals>>

lateVars == <<searchVars, blockVars, compareVars, ultaVars, routineVars>>

\* the pipeline's scripts
coreVars ==
    <<priceVars, orgVars, extractVars, scrapeVars, loadVars, catVars, mainVars, concVars>>

vars == <<coreVars, lateVars>>

\* ---------------------------------------------------------- price parsers
PriceInit ==
    /\ price_str \in RawPriceValues
    /\ parser = ""
    /\ price_result = NotCalled

PriceIdle ==
    /\ price_str = NoneRaw
    /\ parser = "idle"
    /\ price_result = NotCalled

ExtractMinPrice ==
    /\ parser = ""
    /\ parser' = "extract_min_price"
    /\ price_result' = extract_min_price(price_str)
    /\ UNCHANGED <<price_str, orgVars, extractVars, scrapeVars, loadVars,
                   catVars, mainVars, concVars, lateVars>>

ParsePrice ==
    /\ parser = ""
    /\ parser' = "parse_price"
    /\ price_result' = parse_price(price_str)
    /\ UNCHANGED <<price_str, orgVars, extractVars, scrapeVars, loadVars,
                   catVars, mainVars, concVars, lateVars>>

ExtractPrice ==
    /\ parser = ""
    /\ parser' = "extract_price"
    /\ price_result' = extract_price(price_str)
    /\ UNCHANGED <<price_str, orgVars, extractVars, scrapeVars, loadVars,
                   catVars, mainVars, concVars, lateVars>>

\* ------------------------------------------------------------ organize.py
OrgInit ==
    /\ raw_items \in RawFiles
    /\ org_call = ""
    /\ org_outcome = NotCalled
    /\ output_file = NothingWritten

OrgIdle ==
    /\ raw_items = <<>>
    /\ org_call = "idle"
    /\ org_outcome = NotCalled
    /\ output_file = NothingWritten

ProcessTargetData ==
    /\ org_call = ""
    /\ org_call' = "process_target_data"
    /\ org_outcome' = process_target_data(raw_items).outcome
    /\ output_file' = process_target_data(raw_items).out
    /\ UNCHANGED <<raw_items, priceVars, extractVars, scrapeVars, loadVars,
                   catVars, mainVars, concVars, lateVars>>

ProcessRiteaidData ==
    /\ org_call = ""
    /\ \E has_products \in BOOLEAN :
          /\ org_call' = IF has_products THEN "process_riteaid_data"
                         ELSE "process_riteaid_data without products"
          /\ org_outcome' = process_riteaid_data(raw_items, has_products).outcome
          /\ output_file' = process_riteaid_data(raw_items, has_products).out
    /\ UNCHANGED <<raw_items, priceVars, extractVars, scrapeVars, loadVars,
                   catVars, mainVars, concVars, lateVars>>

ProcessUltaData ==
    /\ org_call = ""
    /\ org_call' = "process_ulta_data"
    /\ org_outcome' = process_ulta_data(raw_items).outcome
    /\ output_file' = process_ulta_data(raw_items).out
    /\ UNCHANGED <<raw_items, priceVars, extractVars, scrapeVars, loadVars,
                   catVars, mainVars, concVars, lateVars>>

\* ------------------------------------- target_scraper.py extract_products
ExtractInit ==
    /\ product_containers \in Pages
    /\ products = NotCalled

ExtractIdle ==
    /\ product_containers = <<>>
    /\ products = [kind |-> "idle"]

ExtractProducts ==
    /\ products = NotCalled
    /\ products' = [kind |-> "returned", list |-> extract_products(product_containers)]
    /\ UNCHANGED <<product_containers, priceVars, orgVars, scrapeVars, loadVars,
                   catVars, mainVars, concVars, lateVars>>

\* ------------------------------- target_scraper.py scrape_target_products
NotSaved == <<>>

\* a dump that writes an empty list whatever was collected
SavedNothing(list) == << <<>> >>

\* json.dump(all_products, f) on the file opened with 'w'
Saved(list) == <<list>>

ScrapeInit ==
    /\ scrape_pc = "start"
    /\ total_pages = 0
    /\ page_num = 0
    /\ page_products = <<>>
    /\ all_products = <<>>
    /\ unique_products = {}
    /\ saved_file = NotSaved
    /\ seen = <<>>
    /\ site_pages = 0
    /\ pages_done = <<>>

ScrapeIdle ==
    /\ scrape_pc = "idle"
    /\ total_pages = 0
    /\ page_num = 0
    /\ page_products = <<>>
    /\ all_products = <<>>
    /\ unique_products = {}
    /\ saved_file = NotSaved
    /\ seen = <<>>
    /\ site_pages = 0
    /\ pages_done = <<>>

\* the first page is loaded and get_total_pages reports a page count
ScrapeStart ==
    /\ scrape_pc = "start"
    /\ \E reported \in 0..(MaxPages + 1) :
          /\ total_pages' = Min2(reported, MaxPages)
          /\ site_pages' = reported
    /\ page_num' = 1
    /\ scrape_pc' = "loop"
    /\ UNCHANGED <<page_products, all_products, unique_products, saved_file, seen,
                   pages_done>>
    /\ UNCHANGED <<priceVars, orgVars, extractVars, loadVars,
                   catVars, mainVars, concVars, lateVars>>

\* one pass of the loop over the pages: the page is loaded, its products
\* are extracted and the new ones added; progress is saved unless the loop
\* breaks at an empty page after the first
ProcessPage ==
    /\ scrape_pc = "loop"
    /\ page_num <= total_pages
    /\ \E page \in Pages :
          LET extracted == extract_products(page)
              added == AddUnique(extracted, all_products, unique_products)
          IN  /\ Len(seen) + Len(extracted) <= MaxSeen
              /\ page_products' = extracted
              /\ seen' = seen \o extracted
              /\ pages_done' = Append(pages_done, [page |-> page_num,
                                                    yielded |-> extracted # <<>>])
              /\ IF extracted # <<>>
                 THEN /\ all_products' = added.all_products
                      /\ unique_products' = added.unique_products
                      /\ saved_file' = Saved(added.all_products)
                      /\ page_num' = page_num + 1
                      /\ scrape_pc' = "loop"
                 ELSE IF page_num > 1
                 THEN /\ scrape_pc' = "final"
                      /\ UNCHANGED <<all_products, unique_products, saved_file, page_num>>
                 ELSE /\ saved_file' = Saved(all_products)
                      /\ page_num' = page_num + 1
                      /\ scrape_pc' = "loop"
                      /\ UNCHANGED <<all_products, unique_products>>
    /\ UNCHANGED <<total_pages, site_pages>>
    /\ UNCHANGED <<priceVars, orgVars, extractVars, loadVars,
                   catVars, mainVars, concVars, lateVars>>

\* the loop is over: the final results are saved and returned
FinalSave ==
    /\ \/ scrape_pc = "final"
       \/ scrape_pc = "loop" /\ page_num > total_pages
    /\ saved_file' = Saved(all_products)
    /\ scrape_pc' = "returned"
    /\ UNCHANGED <<total_pages, page_num, page_products, all_products, unique_products,
                   seen, site_pages, pages_done>>
    /\ UNCHANGED <<priceVars, orgVars, extractVars, loadVars,
                   catVars, mainVars, concVars, lateVars>>

\* loading a page raises: the handler saves what was collected, if anything
ScrapeError ==
    /\ \/ scrape_pc = "start"
       \/ scrape_pc = "loop" /\ 1 < page_num /\ page_num <= total_pages
    /\ saved_file' = IF all_products # <<>> THEN Saved(all_products) ELSE saved_file
    /\ scrape_pc' = "returned"
    /\ UNCHANGED <<total_pages, page_num, page_products, all_products, unique_products,
                   seen, site_pages, pages_done>>
    /\ UNCHANGED <<priceVars, orgVars, extractVars, loadVars,
                   catVars, mainVars, concVars, lateVars>>

\* ------------------------------------------------- routine_analysis.py
LoadInit ==
    /\ load_pc = "loading"
    /\ dir_num = 1
    /\ loaded_products = <<>>
    /\ df = <<>>
    /\ cheapest = NotCalled
    /\ cheapest_overall = NotCalled
    /\ origin = <<>>
    /\ listed = <<>>
    /\ loaded_again = <<>>
    /\ df_again = <<>>
    /\ cheapest_again = NotCalled

LoadIdle ==
    /\ load_pc = "idle"
    /\ dir_num = 1
    /\ loaded_products = <<>>
    /\ df = <<>>
    /\ cheapest = NotCalled
    /\ cheapest_overall = NotCalled
    /\ origin = <<>>
    /\ listed = <<>>
    /\ loaded_again = <<>>
    /\ df_again = <<>>
    /\ cheapest_again = NotCalled

\* where the products of a file came from: the category of the directory
\* and the category key of each product as read
OriginOf(first_file, category) ==
    [i \in DOMAIN first_file |-> [dir |-> category, given |-> first_file[i].category]]

\* the products of all the files of a listing
RECURSIVE ProductsOfAll(_)
ProductsOfAll(json_files) ==
    IF json_files = <<>> THEN <<>>
    ELSE json_files[1] \o ProductsOfAll(Tail(json_files))

\* one pass of the nested loops of load_data: the directory is missing or
\* holds no JSON file, or the first file glob lists is read; a file that
\* does not parse or is no non-empty list adds nothing.  load_data writes
\* nothing, so a second run reads the same directory: it is carried along,
\* with the file its own listing puts first
LoadDirectory ==
    /\ load_pc = "loading"
    /\ dir_num <= NumDirs
    /\ \E json_files \in Listings(DirStore(dir_num)) :
       \E k \in FirstPositions(json_files) :
          LET first_file == ProductsAt(json_files, IF json_files = <<>> THEN 0 ELSE 1)
              again_file == ProductsAt(json_files, k)
          IN  /\ Len(loaded_products) + Len(first_file) <= MaxProducts
              /\ Len(loaded_again) + Len(again_file) <= MaxProducts
              /\ loaded_products' =
                    loaded_products \o WithCategory(first_file, DirCategory(dir_num))
              /\ origin' = origin \o OriginOf(first_file, DirCategory(dir_num))
              /\ listed' = listed \o WithCategory(ProductsOfAll(json_files),
                                                   DirCategory(dir_num))
              /\ loaded_again' =
                    loaded_again \o WithCategory(again_file, DirCategory(dir_num))
    /\ dir_num' = dir_num + 1
    /\ UNCHANGED <<load_pc, df, cheapest, cheapest_overall, df_again, cheapest_again>>
    /\ UNCHANGED <<priceVars, orgVars, extractVars, scrapeVars,
                   catVars, mainVars, concVars, lateVars>>

\* the loops are over: the DataFrame is built and returned
ReturnDataFrame ==
    /\ load_pc = "loading"
    /\ dir_num > NumDirs
    /\ df' = DataFrame(loaded_products)
    /\ df_again' = DataFrame(loaded_again)
    /\ load_pc' = "loaded"
    /\ UNCHANGED <<dir_num, loaded_products, cheapest, cheapest_overall, origin, listed,
                   loaded_again, cheapest_again>>
    /\ UNCHANGED <<priceVars, orgVars, extractVars, scrapeVars,
                   catVars, mainVars, concVars, lateVars>>

GetCheapestProducts ==
    /\ load_pc = "loaded"
    /\ cheapest' = get_cheapest_products(df)
    /\ cheapest_again' = get_cheapest_products(df_again)
    /\ load_pc' = "selected"
    /\ UNCHANGED <<dir_num, loaded_products, df, cheapest_overall, origin, listed,
                   loaded_again, df_again>>
    /\ UNCHANGED <<priceVars, orgVars, extractVars, scrapeVars,
                   catVars, mainVars, concVars, lateVars>>

\* get_cheapest_overall on the DataFrame, before or after the other selector
GetCheapestOverall ==
    /\ load_pc \in {"loaded", "selected"}
    /\ cheapest_overall = NotCalled
    /\ cheapest_overall' = get_cheapest_overall(df)
    /\ UNCHANGED <<load_pc, dir_num, loaded_products, df, cheapest, origin, listed,
                   loaded_again, df_again, cheapest_again>>
    /\ UNCHANGED <<priceVars, orgVars, extractVars, scrapeVars,
                   catVars, mainVars, concVars, lateVars>>

\* ------------------------------------------------ category identifiers
CatInit ==
    /\ category_name \in CategoryNames
    /\ cat_parser = ""
    /\ category_id = NotCalled

CatIdle ==
    /\ category_name = <<>>
    /\ cat_parser = "idle"
    /\ category_id = NotCalled

\* ulta_parser.py: the category of a "Starting ... scraper" line
ParseUltaCategory ==
    /\ cat_parser = ""
    /\ cat_parser' = "parse_ulta_output"
    /\ category_id' = [kind |-> "id", id |-> parse_ulta_category(category_name)]
    /\ UNCHANGED <<category_name, priceVars, orgVars, extractVars, scrapeVars, loadVars,
                   mainVars, concVars, lateVars>>

\* process_riteaid_data.py: the category of a "... (n items):" block
RiteaidFilenameCategory ==
    /\ cat_parser = ""
    /\ cat_parser' = "process_riteaid_output"
    /\ category_id' = [kind |-> "id", id |-> riteaid_filename_category(category_name)]
    /\ UNCHANGED <<category_name, priceVars, orgVars, extractVars, scrapeVars, loadVars,
                   mainVars, concVars, lateVars>>

\* ------------------------------------------------------ organize.py main
MainInit ==
    /\ main_pc = "start"
    /\ main_dir = 1
    /\ main_file = 0
    /\ sorted_data \in EarlierTrees
    /\ earlier = sorted_data

MainIdle ==
    /\ main_pc = "idle"
    /\ main_dir = 1
    /\ main_file = 0
    /\ sorted_data = {}
    /\ earlier = {}

\* sorted_data is removed if it exists and its directories are made
MainStart ==
    /\ main_pc = "start"
    /\ sorted_data' = Rmtree(sorted_data)
    /\ main_pc' = "run"
    /\ UNCHANGED <<main_dir, main_file, earlier>>
    /\ UNCHANGED <<priceVars, orgVars, extractVars, scrapeVars, loadVars, catVars, concVars, lateVars>>

\* one pass of the loop over the files of a results directory, in the order
\* os.listdir gives them: a file that is no JSON file is passed over, a JSON
\* file is processed; an exception ends main
ProcessResultFile ==
    /\ main_pc = "run"
    /\ main_dir <= NumDirs
    /\ main_file < MaxResultFiles
    /\ \E file \in ResultFiles :
          LET r == ProcessFile(sorted_data, DirStore(main_dir), DirCategory(main_dir), file)
          IN  IF ~EndsWithJson(file.basename)
              THEN main_file' = main_file + 1 /\ UNCHANGED <<main_pc, sorted_data>>
              ELSE IF r.outcome.kind = "raised"
              THEN main_pc' = "raised" /\ UNCHANGED <<main_file, sorted_data>>
              ELSE /\ sorted_data' = r.tree
                   /\ main_file' = main_file + 1
                   /\ UNCHANGED main_pc
    /\ UNCHANGED <<main_dir, earlier>>
    /\ UNCHANGED <<priceVars, orgVars, extractVars, scrapeVars, loadVars, catVars, concVars, lateVars>>

\* the results directory does not exist or its files are through: the loop
\* over the categories and the stores goes on
NextResultsDirectory ==
    /\ main_pc = "run"
    /\ main_dir <= NumDirs
    /\ main_dir' = main_dir + 1
    /\ main_file' = 0
    /\ UNCHANGED <<main_pc, sorted_data, earlier>>
    /\ UNCHANGED <<priceVars, orgVars, extractVars, scrapeVars, loadVars, catVars, concVars, lateVars>>

\* the loops are over: main returns
MainDone ==
    /\ main_pc = "run"
    /\ main_dir > NumDirs
    /\ main_pc' = "done"
    /\ UNCHANGED <<main_dir, main_file, sorted_data, earlier>>
    /\ UNCHANGED <<priceVars, orgVars, extractVars, scrapeVars, loadVars, catVars, concVars, lateVars>>

\* ------------------------------- process_<store>_data, two calls at once
\* the calls are on independent inputs: another store or another category
ConcInit ==
    /\ conc_calls \in [1..2 -> ConcCalls]
    /\ <<conc_calls[1].store, conc_calls[1].category>>
          # <<conc_calls[2].store, conc_calls[2].category>>
    /\ conc_pc = [k \in 1..2 |-> "start"]
    /\ conc_fs = {}
    /\ overlapped = FALSE

ConcIdle ==
    /\ conc_calls = <<>>
    /\ conc_pc = <<>>
    /\ conc_fs = {}
    /\ overlapped = FALSE

\* the other call is between its first step and its return
OtherUnderWay(k) == \E j \in DOMAIN conc_pc : j # k /\ conc_pc[j] \in {"built", "opened"}

\* a call reads its input file, builds and sorts the records, makes the
\* output directory and computes the name of the output file, or raises
ConcBuild ==
    /\ \E k \in DOMAIN conc_pc :
          /\ conc_pc[k] = "start"
          /\ conc_pc' = [conc_pc EXCEPT ![k] = IF CallRaises(conc_calls[k])
                                               THEN "raised" ELSE "built"]
          /\ overlapped' = (overlapped \/ OtherUnderWay(k))
    /\ UNCHANGED <<conc_calls, conc_fs>>
    /\ UNCHANGED <<priceVars, orgVars, extractVars, scrapeVars, loadVars, catVars, mainVars, lateVars>>

\* open(output_file, 'w'): the file is created or truncated
ConcOpen ==
    /\ \E k \in DOMAIN conc_pc :
          /\ conc_pc[k] = "built"
          /\ conc_fs' = WriteFile(conc_fs, [EntryOf(conc_calls[k]) EXCEPT
                                              !.records = <<>>, !.run = "open"])
          /\ conc_pc' = [conc_pc EXCEPT ![k] = "opened"]
          /\ overlapped' = (overlapped \/ OtherUnderWay(k))
    /\ UNCHANGED conc_calls
    /\ UNCHANGED <<priceVars, orgVars, extractVars, scrapeVars, loadVars, catVars, mainVars, lateVars>>

\* json.dump and the end of the with block: the records are in the file
ConcDump ==
    /\ \E k \in DOMAIN conc_pc :
          /\ conc_pc[k] = "opened"
          /\ conc_fs' = WriteFile(conc_fs, EntryOf(conc_calls[k]))
          /\ conc_pc' = [conc_pc EXCEPT ![k] = "returned"]
          /\ overlapped' = (overlapped \/ OtherUnderWay(k))
    /\ UNCHANGED conc_calls
    /\ UNCHANGED <<priceVars, orgVars, extractVars, scrapeVars, loadVars, catVars, mainVars, lateVars>>

\* ------------------- makeup_price_comparison.py: the paging functions
RiteAidFn == "riteaid_scrape_products"

TargetFn == "target_get_all_products"

\* a product element of a Rite Aid result page: with a name link, or without
\* one (such an element is skipped, as is one without a price element)
Elements == {[title |-> Present("a")], [title |-> Missing]}

ElementLists == UNION {[1..k -> Elements] : k \in 0..MaxElements}

\* what a request for a Rite Aid page can give: an exception, a status other
\* than 200, or a page with its product elements and maybe a next-page link
RiteaidResponses ==
    {[kind |-> "error"], [kind |-> "failed"]}
    \cup [kind : {"page"}, elements : ElementLists, next_page_link : BOOLEAN]

\* what target_extract_products can return: None, or a result with the
\* products of the page and the page count computed from total_results
TargetResults ==
    {[kind |-> "none"]}
    \cup [kind : {"result"},
          products : UNION {[1..k -> {[title |-> "a"]}] : k \in 0..MaxElements},
          total_pages : 0..(MaxPages + 1)]

\* the loop over product_elements: an element without a name is skipped
RECURSIVE ParseElements(_)
ParseElements(product_elements) ==
    IF product_elements = <<>> THEN <<>>
    ELSE LET element == product_elements[1]
         IN  IF element.title = Missing
             THEN ParseElements(Tail(product_elements))
             ELSE <<[store |-> "Rite Aid", title |-> element.title[1]]>>
                  \o ParseElements(Tail(product_elements))

\* the products target_extract_products built, each with its store
TargetProducts(result) ==
    [i \in DOMAIN result.products |-> [store |-> "Target", title |-> result.products[i].title]]

\* a loop that asks for the same page again
SamePage(page) == page

\* current_page += 1, and the next value of range(max_pages)
NextPage(page) == page + 1

SearchInit ==
    /\ search_fn \in {RiteAidFn, TargetFn}
    /\ max_pages \in 0..MaxPages
    /\ current_page = IF search_fn = RiteAidFn THEN 1 ELSE 0
    /\ found_products = <<>>
    /\ search_pc = "loop"
    /\ responses = <<>>

SearchIdle ==
    /\ search_fn = "idle"
    /\ max_pages = 0
    /\ current_page = 0
    /\ found_products = <<>>
    /\ search_pc = "idle"
    /\ responses = <<>>


\* one pass of the while loop of riteaid_scrape_products
RiteaidScrapePage ==
    /\ search_fn = RiteAidFn
    /\ search_pc = "loop"
    /\ current_page <= max_pages
    /\ \E response \in RiteaidResponses :
          /\ responses' = Append(responses, response)
          /\ IF response.kind # "page" \/ response.elements = <<>>
             THEN /\ search_pc' = "returned"
                  /\ UNCHANGED <<found_products, current_page>>
             ELSE /\ found_products' = found_products \o ParseElements(response.elements)
                  /\ IF ~response.next_page_link
                     THEN /\ search_pc' = "returned"
                          /\ UNCHANGED current_page
                     ELSE /\ current_page' = NextPage(current_page)
                          /\ search_pc' = "loop"
    /\ UNCHANGED <<search_fn, max_pages>>
    /\ UNCHANGED <<coreVars, blockVars, compareVars, ultaVars, routineVars>>

\* one pass of the for loop of target_get_all_products
TargetGetPage ==
    /\ search_fn = TargetFn
    /\ search_pc = "loop"
    /\ current_page < max_pages
    /\ \E result \in TargetResults :
          /\ responses' = Append(responses, result)
          /\ IF result.kind = "none" \/ result.products = <<>>
             THEN /\ search_pc' = "returned"
                  /\ UNCHANGED <<found_products, current_page>>
             ELSE /\ found_products' = found_products \o TargetProducts(result)
                  /\ IF current_page + 1 >= result.total_pages
                     THEN /\ search_pc' = "returned"
                          /\ UNCHANGED current_page
                     ELSE /\ current_page' = NextPage(current_page)
                          /\ search_pc' = "loop"
    /\ UNCHANGED <<search_fn, max_pages>>
    /\ UNCHANGED <<coreVars, blockVars, compareVars, ultaVars, routineVars>>

\* the loop condition fails: return all_products
SearchLoopEnds ==
    /\ search_pc = "loop"
    /\ \/ search_fn = RiteAidFn /\ current_page > max_pages
       \/ search_fn = TargetFn /\ current_page >= max_pages
    /\ search_pc' = "returned"
    /\ UNCHANGED <<search_fn, max_pages, current_page, found_products, responses>>
    /\ UNCHANGED <<coreVars, blockVars, compareVars, ultaVars, routineVars>>

\* ------------------------------ process_riteaid_data.py: category blocks
\* a line of a block that matches '(.*?)\s+-\s+\$([0-9.]+)$': a name and the
\* text of a price, which may be a lone '.'
ProductLines ==
    { [name |-> "a", price |-> <<"2">>],
      [name |-> "b", price |-> <<"1">>],
      [name |-> "a", price |-> <<".">>] }

\* the product text of a block: no line, or one line
ProductTexts == {<<>>} \cup {<<line>> : line \in ProductLines}

\* a match of the category pattern: the category heading and the product text
CategoryBlocks == [name : {<<"e">>, <<"g">>}, product_text : ProductTexts]

BlockLists == UNION {[1..k -> CategoryBlocks] : k \in 0..MaxBlocks}

\* the loop over the lines of a block: float(match.group(2)) raises on a
\* price text that is no decimal literal
RECURSIVE ParseProductLines(_)
ParseProductLines(lines) ==
    IF lines = <<>> THEN [raised |-> FALSE, list |-> <<>>]
    ELSE IF ~PyFloatOk(lines[1].price) THEN [raised |-> TRUE, list |-> <<>>]
    ELSE LET rest == ParseProductLines(Tail(lines))
         IN  [raised |-> rest.raised,
              list |-> <<[name |-> lines[1].name, price |-> PyFloat(lines[1].price),
                          store |-> "RiteAid"]>> \o rest.list]

\* the file of a category is written, over the one of the same name
WriteCategory(files, category, list) ==
    {f \in files : f.category # category} \cup {[category |-> category, products |-> list]}

\* the loop over the category blocks from block i on: a block whose name is in
\* categories_processed is skipped; an exception ends the call, which then
\* returns 0 and leaves the files written so far
RECURSIVE ProcessBlocks(_, _, _, _, _)
ProcessBlocks(blocks, i, categories_processed, files, done) ==
    IF i > Len(blocks)
    THEN [count |-> Len(categories_processed), files |-> files, done |-> done]
    ELSE IF \E j \in DOMAIN categories_processed : categories_processed[j] = blocks[i].name
    THEN ProcessBlocks(blocks, i + 1, categories_processed, files, done)
    ELSE LET parsed == ParseProductLines(blocks[i].product_text)
         IN  IF parsed.raised
             THEN [count |-> 0, files |-> files, done |-> done]
             ELSE ProcessBlocks(blocks, i + 1,
                                Append(categories_processed, blocks[i].name),
                                WriteCategory(files, riteaid_filename_category(blocks[i].name),
                                              parsed.list),
                                done \cup {i})

process_riteaid_output(blocks) == ProcessBlocks(blocks, 1, <<>>, {}, {})

BlockInit ==
    /\ category_blocks \in BlockLists
    /\ riteaid_count = NotCalled
    /\ results_dir = {}
    /\ blocks_processed = {}

BlockIdle ==
    /\ category_blocks = <<>>
    /\ riteaid_count = [kind |-> "idle"]
    /\ results_dir = {}
    /\ blocks_processed = {}

ProcessRiteaidOutput ==
    /\ riteaid_count = NotCalled
    /\ LET out == process_riteaid_output(category_blocks)
       IN  /\ riteaid_count' = [kind |-> "count", n |-> out.count]
           /\ results_dir' = out.files
           /\ blocks_processed' = out.done
    /\ UNCHANGED category_blocks
    /\ UNCHANGED <<coreVars, searchVars, compareVars, ultaVars, routineVars>>


\* ------------------ makeup_price_comparison.py: get_cheapest_products
\* the "price" entry of a product of the Redsky payload: no entry, a price
\* object without current_retail, one whose current_retail is null, one with
\* an amount
PricePayloads ==
    { Missing,
      Present([current_retail |-> Missing]),
      Present([current_retail |-> Present(NoneRaw)]),
      Present([current_retail |-> Present(NumRaw(MkNum(1, 1, 0)))]),
      Present([current_retail |-> Present(NumRaw(MkNum(1, 2, 0)))]) }

PayloadLists == UNION {[1..k -> PricePayloads] : k \in 0..MaxCompared}

\* the text of the price element of a Rite Aid product: a word, or an amount
PriceTexts == {StrRaw(<<"f">>), StrRaw(<<"$", "1", ".", "5">>)}

PriceTextLists == UNION {[1..k -> PriceTexts] : k \in 0..MaxCompared}

\* price_data = product.get("price", {});
\* product_info["price"] = price_data.get("current_retail", 0)
TargetPrice(payload) ==
    LET price_data == Get(payload, [current_retail |-> Missing])
    IN  Get(price_data.current_retail, NumRaw(Zero))

\* the products target_get_all_products returns; the title stands for the
\* position in the payload
TargetProductInfo(payloads) ==
    [i \in DOMAIN payloads |->
        [store |-> "Target", title |-> i, price |-> TargetPrice(payloads[i])]]

\* the products riteaid_scrape_products returns:
\* product['price'] = extract_price(price_text)
RiteaidProductInfo(texts) ==
    [i \in DOMAIN texts |->
        [store |-> "Rite Aid", title |-> i, price |-> extract_price(texts[i])]]

\* 'price' in p and p['price'] is not None
HasPrice(p) == p.price.kind # "none"

\* sorted(products_with_price, key=price)[0]: the sort is stable, so it is
\* the first of the products of least price
CheapestFirst(priced) ==
    LET i == CHOOSE k \in DOMAIN priced :
                 /\ \A j \in DOMAIN priced : NumLE(priced[k].price.v, priced[j].price.v)
                 /\ \A j \in 1..(k - 1) : priced[j].price.v # priced[k].price.v
    IN  priced[i]

\* get_cheapest_products for one product type
compare_cheapest_products(payloads, texts) ==
    LET combined == TargetProductInfo(payloads) \o RiteaidProductInfo(texts)
        products_with_price == SelectSeq(combined, HasPrice)
    IN  IF products_with_price = <<>> THEN <<>>
        ELSE LET first == CheapestFirst(products_with_price)
             IN  <<[title |-> first.title, price |-> first.price.v, store |-> first.store]>>

CompareInit ==
    /\ raw_products \in PayloadLists
    /\ price_texts \in PriceTextLists
    /\ all_results = NotCalled

CompareIdle ==
    /\ raw_products = <<>>
    /\ price_texts = <<>>
    /\ all_results = [kind |-> "idle"]

CompareCheapest ==
    /\ all_results = NotCalled
    /\ all_results' = ReturnedList(compare_cheapest_products(raw_products, price_texts))
    /\ UNCHANGED <<raw_products, price_texts>>
    /\ UNCHANGED <<coreVars, searchVars, blockVars, ultaVars, routineVars>>


\* ------------------------------------- ulta_parser.py extract_products
\* the lines the scraper logged for one product: 'Found brand: ...',
\* 'Found product name: ...', 'Found price: $...', each there or not
LoggedProducts == [brand : BOOLEAN, name : BOOLEAN, price : BOOLEAN]

Sections == UNION {[1..k -> LoggedProducts] : k \in 0..MaxLogged}

\* the matches of one pattern in the section, in text order; each value is
\* marked with the position of the product it was logged for
RECURSIVE MatchesFrom(_, _, _)
MatchesFrom(section, field, i) ==
    IF i > Len(section) THEN <<>>
    ELSE (IF section[i][field] THEN <<[field |-> field, of |-> i]>> ELSE <<>>)
         \o MatchesFrom(section, field, i + 1)

Matches(section, field) == MatchesFrom(section, field, 1)

\* min(len(brands), len(names), len(prices))
MinLength(brands, names, prices) ==
    LET n == IF Len(brands) <= Len(names) THEN Len(brands) ELSE Len(names)
    IN  IF n <= Len(prices) THEN n ELSE Len(prices)

\* the three lists are built one pattern at a time and the i-th product is
\* made of the i-th entry of each
ulta_extract_products(section) ==
    LET brands == Matches(section, "brand")
        names == Matches(section, "name")
        prices == Matches(section, "price")
    IN  [i \in 1..MinLength(brands, names, prices) |->
            [store |-> "ulta", brand |-> brands[i], name |-> names[i], price |-> prices[i]]]

UltaInit ==
    /\ section_text \in Sections
    /\ ulta_products = NotCalled

UltaIdle ==
    /\ section_text = <<>>
    /\ ulta_products = [kind |-> "idle"]

UltaExtractProducts ==
    /\ ulta_products = NotCalled
    /\ ulta_products' = ReturnedList(ulta_extract_products(section_text))
    /\ UNCHANGED section_text
    /\ UNCHANGED <<coreVars, searchVars, blockVars, compareVars, routineVars>>


\* ------------------------ routine_analysis.py: the routine breakdown
\* the products of one store and category directory as load_data read them:
\* none, one, two with the cheaper one last, or one without a price
CellPrices ==
    { <<>>, <<Present(MkNum(1, 1, 0))>>, <<Present(MkNum(1, 2, 0))>>,
      <<Present(MkNum(1, 2, 0)), Present(MkNum(1, 1, 0))>>, <<Missing>> }

\* the rows of the DataFrame from directory d on, for a choice of the
\* products of each directory
RECURSIVE FrameRows(_, _)
FrameRows(cells, d) ==
    IF d > NumDirs THEN <<>>
    ELSE [i \in DOMAIN cells[d] |->
             [store |-> DirStore(d), name |-> IF i = 1 THEN "a" ELSE "b",
              category |-> DirCategory(d), price |-> cells[d][i]]]
         \o FrameRows(cells, d + 1)

\* the DataFrames load_data can return
Frames == {FrameRows(cells, 1) : cells \in [1..NumDirs -> CellPrices]}

\* f"{store} routine"
StrategyOf(store) ==
    CASE store = "target" -> "target routine"
      [] store = "riteaid" -> "riteaid routine"
      [] store = "ulta" -> "ulta routine"

\* the loops that fill routine_data: for each store the rows of
\* cheapest_by_store of that store, then the rows of cheapest_overall
RoutineRow(row, strategy) ==
    [store |-> row.store, strategy |-> strategy, category |-> row.category,
     product_name |-> row.name, price |-> row.price[1]]

RECURSIVE StoreRoutines(_, _, _)
StoreRoutines(frame, by_store, n) ==
    IF n > Len(Stores) THEN <<>>
    ELSE LET of_store == SelectSeq(by_store, LAMBDA i : frame[i].store = Stores[n])
         IN  [k \in DOMAIN of_store |-> RoutineRow(frame[of_store[k]], StrategyOf(Stores[n]))]
             \o StoreRoutines(frame, by_store, n + 1)

OptimalRoutine(frame, overall) ==
    [k \in DOMAIN overall |-> RoutineRow(frame[overall[k]], "optimal routine")]

\* the sum of two prices that are not negative
NumAdd(a, b) ==
    LET scale == Pow10(FracDigits)
        fp == a.fp + b.fp
    IN  MkNum(1, a.ip + b.ip + (IF fp >= scale THEN 1 ELSE 0), fp % scale)

\* a - b for two amounts that are not negative
NumSub(a, b) ==
    LET scale == Pow10(FracDigits)
        hi == IF MagLE(b, a) THEN a ELSE b
        lo == IF MagLE(b, a) THEN b ELSE a
        borrow == IF hi.fp < lo.fp THEN 1 ELSE 0
    IN  MkNum(IF MagLE(b, a) THEN 1 ELSE -1,
              hi.ip - lo.ip - borrow, hi.fp + borrow * scale - lo.fp)

\* routine_df.groupby('strategy')['price'].sum() for one strategy
RECURSIVE StrategyTotal(_, _)
StrategyTotal(rows, strategy) ==
    IF rows = <<>> THEN Zero
    ELSE IF rows[1].strategy = strategy
    THEN NumAdd(rows[1].price, StrategyTotal(Tail(rows), strategy))
    ELSE StrategyTotal(Tail(rows), strategy)

\* the strategies in the sorted order groupby yields them
SortedStrategies ==
    <<"optimal routine", "riteaid routine", "target routine", "ulta routine">>

\* ['target routine', 'riteaid routine', 'ulta routine', 'optimal routine']
ordered_strategies ==
    <<"target routine", "riteaid routine", "ulta routine", "optimal routine">>

HasStrategy(rows, strategy) == \E k \in DOMAIN rows : rows[k].strategy = strategy

\* create_improved_stacked_bar: the DataFrame is empty and nothing is
\* returned; a selector raises; the total of a strategy of the reindexed
\* pivot table is looked up in the dictionary of totals, which raises
\* KeyError for a store without a row; otherwise routine_df is returned
create_improved_stacked_bar(frame) ==
    IF frame = <<>> THEN ReturnedNone
    ELSE LET cheapest_by_store == get_cheapest_products(frame)
             overall == get_cheapest_overall(frame)
         IN  IF cheapest_by_store.kind = "raised" THEN cheapest_by_store
             ELSE IF overall.kind = "raised" THEN overall
             ELSE LET rows == StoreRoutines(frame, cheapest_by_store.rows, 1)
                              \o OptimalRoutine(frame, overall.rows)
                  IN  IF \E n \in DOMAIN ordered_strategies :
                            ~HasStrategy(rows, ordered_strategies[n])
                      THEN Raised("KeyError")
                      ELSE Selected(rows)

\* create_improved_savings_analysis: the total of each strategy and its
\* difference to the total of the optimal routine
create_improved_savings_analysis(rows) ==
    LET present == SelectSeq(SortedStrategies, LAMBDA st : HasStrategy(rows, st))
        optimal_cost == StrategyTotal(rows, "optimal routine")
    IN  [n \in DOMAIN present |->
            [strategy |-> present[n],
             price |-> StrategyTotal(rows, present[n]),
             savings_vs_optimal |-> NumSub(StrategyTotal(rows, present[n]), optimal_cost)]]

RoutineInit ==
    /\ analysis_df \in Frames
    /\ routine_df = NotCalled
    /\ strategy_totals = NotCalled

RoutineIdle ==
    /\ analysis_df = <<>>
    /\ routine_df = [kind |-> "idle"]
    /\ strategy_totals = NotCalled

\* routine_df = create_improved_stacked_bar(df, output_dir)
CreateImprovedStackedBar ==
    /\ routine_df = NotCalled
    /\ analysis_df # <<>>
    /\ routine_df' = create_improved_stacked_bar(analysis_df)
    /\ UNCHANGED <<analysis_df, strategy_totals>>
    /\ UNCHANGED <<coreVars, searchVars, blockVars, compareVars, ultaVars>>

\* create_improved_savings_analysis(routine_df, output_dir)
CreateImprovedSavingsAnalysis ==
    /\ routine_df.kind = "rows"
    /\ strategy_totals = NotCalled
    /\ strategy_totals' = ReturnedList(create_improved_savings_analysis(routine_df.rows))
    /\ UNCHANGED <<analysis_df, routine_df>>
    /\ UNCHANGED <<coreVars, searchVars, blockVars, compareVars, ultaVars>>

LateIdle == SearchIdle /\ BlockIdle /\ CompareIdle /\ UltaIdle /\ RoutineIdle

\* ---------------------------------------------------------- specifications
\* one call of a price parser on one raw price value
\* the components that take no part in a run
RestIdle == CatIdle /\ MainIdle /\ ConcIdle /\ LateIdle

ParserInit == PriceInit /\ OrgIdle /\ ExtractIdle /\ ScrapeIdle /\ LoadIdle /\ RestIdle

ParserNext == ExtractMinPrice \/ ParsePrice \/ ExtractPrice

SpecPrice == ParserInit /\ [][ParserNext]_vars

\* one call of a paging function of makeup_price_comparison.py; the server
\* answers every request, so a pass of the loop that can be taken is taken
SearchStart == SearchInit /\ PriceIdle /\ OrgIdle /\ ExtractIdle /\ ScrapeIdle /\ LoadIdle
               /\ CatIdle /\ MainIdle /\ ConcIdle /\ BlockIdle /\ CompareIdle /\ UltaIdle
               /\ RoutineIdle

SearchNext == RiteaidScrapePage \/ TargetGetPage \/ SearchLoopEnds

SpecSearch == SearchStart /\ [][SearchNext]_vars /\ WF_vars(SearchNext)

\* the first components idle
FrontIdle == PriceIdle /\ OrgIdle /\ ExtractIdle /\ ScrapeIdle /\ LoadIdle

\* one run of one of the scripts: a process_<store>_data of organize.py on an
\* input file, the Target scraper on a page or on a search, the routine
\* analysis on sorted_data, a category heading through a parser, main of
\* organize.py, or two calls of process_<store>_data side by side
Init ==
    \/ OrgInit /\ PriceIdle /\ ExtractIdle /\ ScrapeIdle /\ LoadIdle /\ RestIdle
    \/ ExtractInit /\ PriceIdle /\ OrgIdle /\ ScrapeIdle /\ LoadIdle /\ RestIdle
    \/ ScrapeInit /\ PriceIdle /\ OrgIdle /\ ExtractIdle /\ LoadIdle /\ RestIdle
    \/ LoadInit /\ PriceIdle /\ OrgIdle /\ ExtractIdle /\ ScrapeIdle /\ RestIdle
    \/ CatInit /\ FrontIdle /\ MainIdle /\ ConcIdle /\ LateIdle
    \/ MainInit /\ FrontIdle /\ CatIdle /\ ConcIdle /\ LateIdle
    \/ ConcInit /\ FrontIdle /\ CatIdle /\ MainIdle /\ LateIdle
    \/ BlockInit /\ FrontIdle /\ CatIdle /\ MainIdle /\ ConcIdle /\ SearchIdle
                 /\ CompareIdle /\ UltaIdle /\ RoutineIdle
    \/ CompareInit /\ FrontIdle /\ CatIdle /\ MainIdle /\ ConcIdle /\ SearchIdle
                   /\ BlockIdle /\ UltaIdle /\ RoutineIdle
    \/ UltaInit /\ FrontIdle /\ CatIdle /\ MainIdle /\ ConcIdle /\ SearchIdle
                /\ BlockIdle /\ CompareIdle /\ RoutineIdle
    \/ RoutineInit /\ FrontIdle /\ CatIdle /\ MainIdle /\ ConcIdle /\ SearchIdle
                   /\ BlockIdle /\ CompareIdle /\ UltaIdle

Next ==
    \/ ProcessTargetData
    \/ ProcessRiteaidData
    \/ ProcessUltaData
    \/ ExtractProducts
    \/ ScrapeStart
    \/ ProcessPage
    \/ FinalSave
    \/ ScrapeError
    \/ LoadDirectory
    \/ ReturnDataFrame
    \/ GetCheapestProducts
    \/ GetCheapestOverall
    \/ ParseUltaCategory
    \/ RiteaidFilenameCategory
    \/ MainStart
    \/ ProcessRiteaidOutput
    \/ CompareCheapest
    \/ UltaExtractProducts
    \/ CreateImprovedStackedBar
    \/ CreateImprovedSavingsAnalysis
    \/ ProcessResultFile
    \/ NextResultsDirectory
    \/ MainDone
    \/ ConcBuild
    \/ ConcOpen
    \/ ConcDump

Spec == Init /\ [][Next]_vars

\* ------------------------------------------------- claims on the parsers
IsStr == price_str.kind = "str"

\* a numeric substring as the price texts show it: blanks, an optional
\* leading '$', a decimal literal, blanks
IsPriceText(t) ==
    LET u == Strip(t) IN
    /\ u # <<>>
    /\ IsDecimal(IF u[1] = "$" THEN Tail(u) ELSE u)

PriceTextVal(t) ==
    LET u == Strip(t) IN DecimalVal(IF u[1] = "$" THEN Tail(u) ELSE u)

HyphenAt(s) == CHOOSE i \in DOMAIN s : s[i] = "-"

\* s is a hyphen-separated pair of numeric substrings
IsRange(s) ==
    /\ Cardinality({i \in DOMAIN s : s[i] = "-"}) = 1
    /\ IsPriceText(SubSeq(s, 1, HyphenAt(s) - 1))
    /\ IsPriceText(SubSeq(s, HyphenAt(s) + 1, Len(s)))

RangeLeft(s) == PriceTextVal(SubSeq(s, 1, HyphenAt(s) - 1))

RangeRight(s) == PriceTextVal(SubSeq(s, HyphenAt(s) + 1, Len(s)))

RangeFloor(s) == IF NumLE(RangeLeft(s), RangeRight(s)) THEN RangeLeft(s) ELSE RangeRight(s)

\* the characters of s that are digits or decimal points, in order
RECURSIVE DigitsAndDots(_)
DigitsAndDots(s) ==
    IF s = <<>> THEN <<>>
    ELSE IF s[1] \in DigitChars \/ s[1] = "." THEN <<s[1]>> \o DigitsAndDots(Tail(s))
    ELSE DigitsAndDots(Tail(s))

\* the characters of s that are not '$', in order
RECURSIVE WithoutDollars(_)
WithoutDollars(s) ==
    IF s = <<>> THEN <<>>
    ELSE IF s[1] = "$" THEN WithoutDollars(Tail(s))
    ELSE <<s[1]>> \o WithoutDollars(Tail(s))

NoDigit(s) == \A i \in DOMAIN s : s[i] \notin DigitChars

\* the value a call handed back, whether bare or as a one-element list
SingleValue(r) ==
    IF r.kind = "num" THEN <<r.v>>
    ELSE IF r.kind = "list" /\ Len(r.vs) = 1 THEN r.vs
    ELSE <<>>

\* C1 (as claimed): the price parser never raises: for every raw price string,
\* the empty string and a string with a hyphen whose parts are not numeric
\* included, extract_min_price and parse_price return a value or the
\* unparseable signal.
C1_NeverRaises ==
    (parser \in {"extract_min_price", "parse_price"} /\ IsStr)
        => price_result.kind # "raised"

\* C2 (as claimed): for a hyphen-separated pair of numeric substrings the
\* price parser (extract_min_price, parse_price) returns a single value, the
\* minimum of the two parsed values.
C2_RangeSingleMin ==
    (parser \in {"extract_min_price", "parse_price"} /\ IsStr /\ IsRange(price_str.s))
        => price_result = Returned(RangeFloor(price_str.s))

\* C2 (amended): for a hyphen-separated pair of numeric substrings
\* extract_min_price returns a single value, the minimum of the two parsed
\* values; parse_price, for a pair separated by " - ", returns the list of
\* both parsed values in their order, not the minimum.
C2_RangeFloorOrList ==
    (IsStr /\ IsRange(price_str.s)) =>
        /\ parser = "extract_min_price"
              => price_result = Returned(RangeFloor(price_str.s))
        /\ (parser = "parse_price" /\ HasSubstring(price_str.s, <<" ", "-", " ">>))
              => price_result =
                    ReturnedList(<<RangeLeft(price_str.s), RangeRight(price_str.s)>>)

\* C2 witness: extract_min_price was called on a range whose second bound is
\* the smaller one and returned it; parse_price returned a two-element list.
C2_Witness_ExtractMin ==
    /\ parser = "extract_min_price" /\ IsStr /\ IsRange(price_str.s)
    /\ NumLT(RangeRight(price_str.s), RangeLeft(price_str.s))
    /\ price_result = Returned(RangeRight(price_str.s))

\* C4 (as claimed): a numeric raw price is returned as a non-negative value;
\* a negative numeric input is treated as unparseable (the sentinel or an
\* absent price), not returned.
C4_NegativeNumberUnparseable ==
    (parser = "extract_min_price" /\ price_str.kind = "num") =>
        IF NonNegative(price_str.v)
        THEN price_result = Returned(price_str.v)
        ELSE price_result \in {ReturnedNone, Returned(Sentinel)}

OrgCalls == {"process_target_data", "process_riteaid_data", "process_ulta_data"}

\* the title or name the raw item carries for the store, if any
NameField(item, call) ==
    IF call = "process_target_data" THEN item.title
    ELSE IF call = "process_riteaid_data" THEN item.name
    ELSE IF item.title # Missing THEN item.title ELSE item.name

\* the container has a title element with a title that is not blank
Titled(c) == c.found /\ (Strip(c.attr) # <<>> \/ Strip(c.text) # <<>>)

\* C3 (as claimed): the price of every normalized record written by
\* process_target_data, process_riteaid_data and process_ulta_data is absent
\* or a number greater than or equal to zero, for every raw input price,
\* negative numbers included.
C3_WrittenPricesNonNegative ==
    output_file.written =>
        \A i \in DOMAIN output_file.records : NonNegative(output_file.records[i].price)

\* C7 (as claimed): a raw item that lacks the required name/title field is
\* rejected: no record is constructed for it, and no record with the
\* placeholder name appears in the normalizer's output.
C7_NamelessRejected ==
    (org_call \in OrgCalls /\ output_file.written) =>
        /\ Len(output_file.records)
              = Cardinality({i \in DOMAIN raw_items : NameField(raw_items[i], org_call) # Missing})
        /\ \A i \in DOMAIN output_file.records : output_file.records[i].name # "Unknown"

\* C7 (amended): the Target scraper's extract_products rejects a container
\* without a title (no title element, or a blank title): its result holds
\* exactly the containers that have one, each with a non-empty title.  The
\* normalizer of organize.py rejects nothing: when it writes its output, every
\* raw item has a record, and an item that lacks the name/title field has a
\* record with the placeholder name "Unknown".
C7_RejectedOnlyByScraper ==
    /\ products.kind = "returned" =>
          /\ Len(products.list) = Cardinality({i \in DOMAIN product_containers : Titled(product_containers[i])})
          /\ \A i \in DOMAIN products.list :
                products.list[i].title # Missing /\ products.list[i].title[1] # <<>>
    /\ (org_call \in OrgCalls /\ output_file.written) =>
          /\ Len(output_file.records) = Len(raw_items)
          /\ Cardinality({i \in DOMAIN output_file.records : output_file.records[i].name = "Unknown"})
                = Cardinality({i \in DOMAIN raw_items : NameField(raw_items[i], org_call) = Missing})

\* C7 witness: process_target_data has normalized a file with an item that
\* has no title, and the file written holds a record named "Unknown".
C7_Witness_Placeholder ==
    /\ org_call = "process_target_data" /\ output_file.written
    /\ \E i \in DOMAIN raw_items : raw_items[i].title = Missing
    /\ \E i \in DOMAIN output_file.records : output_file.records[i].name = "Unknown"

\* ------------------------------------------------ claims on aggregation
StrippedTitle(product) == Strip(product.title[1])

\* no two records of the collection have the same store and name
OnePerStoreAndName(records) ==
    \A i, j \in DOMAIN records :
        (records[i].store = records[j].store /\ records[i].name = records[j].name) => i = j

\* no two products of the list have the same stripped title
OnePerTitle(list) ==
    \A i, j \in DOMAIN list : StrippedTitle(list[i]) = StrippedTitle(list[j]) => i = j

\* the products of the history that are the first with their stripped title
FirstSeen ==
    SelectSeq([i \in DOMAIN seen |-> [p |-> seen[i], i |-> i]],
              LAMBDA e : \A j \in 1..(e.i - 1) :
                            StrippedTitle(seen[j]) # StrippedTitle(e.p))

\* C8 (as claimed): the aggregated collection holds at most one record for
\* each (store, name) pair, and the Target scraper's collected list has no
\* two products with the same stripped title.
C8_OnePerStoreAndName ==
    /\ OnePerStoreAndName(loaded_products)
    /\ OnePerStoreAndName(df)
    /\ OnePerTitle(all_products)

\* C8 (amended): in the Target scraper, after any sequence of pages, the
\* collected list has no two products with the same stripped title, and each
\* kept product is the earliest one seen with that title, in the order seen.
\* (load_data, the aggregator of the analysis scripts, keeps every record it
\* reads: records with the same store and name all stay in the collection.)
C8_ScraperFirstWins ==
    /\ OnePerTitle(all_products)
    /\ Len(all_products) = Len(FirstSeen)
    /\ \A i \in DOMAIN all_products :
          /\ all_products[i].title = FirstSeen[i].p.title
          /\ all_products[i].tcin = FirstSeen[i].p.tcin
    /\ unique_products = {StrippedTitle(seen[i]) : i \in DOMAIN seen}

\* C8 witness: a second page has brought a product whose title was already
\* collected from another product; the first one is kept, the later one is not.
C8_Witness_Duplicate ==
    /\ page_num >= 3
    /\ \E i, j \in DOMAIN seen :
          /\ i < j
          /\ StrippedTitle(seen[i]) = StrippedTitle(seen[j])
          /\ seen[i].tcin # seen[j].tcin
          /\ \E k \in DOMAIN all_products : all_products[k].tcin = seen[i].tcin
                                            /\ all_products[k].title = seen[i].title
          /\ \A k \in DOMAIN all_products :
                all_products[k].title = seen[j].title => all_products[k].tcin # seen[j].tcin

\* --------------------------------------------- claims on the selectors
GroupsOf(frame) == {GroupKey(frame[i]) : i \in DOMAIN frame}

PricedGroups(frame) ==
    {g \in GroupsOf(frame) : \E i \in DOMAIN frame : GroupKey(frame[i]) = g /\ frame[i].price # Missing}

\* row i is the first of its group with the smallest price of the group
FirstCheapest(frame, i) ==
    /\ frame[i].price # Missing
    /\ \A j \in DOMAIN frame :
          (GroupKey(frame[j]) = GroupKey(frame[i]) /\ frame[j].price # Missing) =>
              /\ NumLE(frame[i].price[1], frame[j].price[1])
              /\ frame[j].price[1] = frame[i].price[1] => i <= j

\* C9 (as claimed): for each (store, category) group with at least one
\* priced record, get_cheapest_products returns exactly one record of the
\* group, with the smallest price of the group and, among the records tied
\* at it, the first in the collection's order.
C9_CheapestPerGroup ==
    load_pc = "selected" =>
        \A g \in PricedGroups(df) :
            /\ cheapest.kind = "rows"
            /\ Cardinality({n \in DOMAIN cheapest.rows : GroupKey(df[cheapest.rows[n]]) = g}) = 1
            /\ \A n \in DOMAIN cheapest.rows :
                  GroupKey(df[cheapest.rows[n]]) = g => FirstCheapest(df, cheapest.rows[n])

\* C10 (as claimed): with a (store, category) group in which every record
\* has a null price, get_cheapest_products completes and its output holds no
\* entry for that group.
C10_UnpricedGroupAbsent ==
    load_pc = "selected" =>
        /\ cheapest.kind = "rows"
        /\ \A n \in DOMAIN cheapest.rows : GroupKey(df[cheapest.rows[n]]) \in PricedGroups(df)

\* the categories that have a record with a price
PricedCategories(frame) == {frame[i].category : i \in {j \in DOMAIN frame : frame[j].price # Missing}}

\* row i has the smallest price among the priced rows of its category
CheapestOfCategory(frame, i) ==
    /\ frame[i].price # Missing
    /\ \A j \in DOMAIN frame :
          (frame[j].category = frame[i].category /\ frame[j].price # Missing) =>
              NumLE(frame[i].price[1], frame[j].price[1])

\* C11 (as claimed): for each category with at least one priced record,
\* get_cheapest_overall returns exactly one record of the category, and its
\* price is the smallest among the priced records of the category over all
\* stores.
C11_CheapestPerCategory ==
    cheapest_overall # NotCalled =>
        \A c \in PricedCategories(df) :
            /\ cheapest_overall.kind = "rows"
            /\ Cardinality({n \in DOMAIN cheapest_overall.rows :
                               df[cheapest_overall.rows[n]].category = c}) = 1
            /\ \A n \in DOMAIN cheapest_overall.rows :
                  df[cheapest_overall.rows[n]].category = c
                      => CheapestOfCategory(df, cheapest_overall.rows[n])

\* --------------------------------------------- claims on the normalizer
\* the raw price is a number, a price text or a range of two price texts
WellFormedPrice(raw) ==
    \/ raw.kind = "num"
    \/ raw.kind = "str" /\ (IsPriceText(raw.s) \/ IsRange(raw.s))

\* the item has a malformed price or lacks a field
BadItem(item) ==
    \/ item.title = Missing
    \/ item.name = Missing
    \/ item.price = Missing
    \/ ~WellFormedPrice(item.price[1])

\* C12 (as claimed): when one item of an input file has a malformed price or
\* a missing field, process_target_data, process_riteaid_data and
\* process_ulta_data still complete, and the file written holds a record for
\* every other item.
C12_BatchCompletes ==
    (/\ org_call \in OrgCalls
     /\ Len(raw_items) >= 2
     /\ Cardinality({i \in DOMAIN raw_items : BadItem(raw_items[i])}) = 1) =>
        /\ org_outcome.kind = "done"
        /\ output_file.written
        /\ Len(output_file.records) >= Len(raw_items) - 1

\* ------------------------------------------------- claims on re-running
\* the records a selector handed back: the rows of the frame it names
SelectedRecords(frame, result) ==
    IF result.kind = "rows" THEN [n \in DOMAIN result.rows |-> frame[result.rows[n]]]
    ELSE <<result>>

\* C13 (as claimed): load_data followed by get_cheapest_products, run twice
\* on the same sorted_data, yields the same DataFrame and the same cheapest
\* records both times, whatever the order in which the files are listed
\* (stated for the runs in which the selector returns).
C13_SameOutputTwice ==
    (load_pc = "selected" /\ cheapest.kind = "rows") =>
        /\ df = df_again
        /\ SelectedRecords(df, cheapest) = SelectedRecords(df_again, cheapest_again)

\* ------------------------------------------------ claims on categories
\* the categories of the list of load_data
KnownCategories == {Categories[i] : i \in DOMAIN Categories}

\* the selector's result has a record of the group (of the category) of row i
HasGroupOf(result, i) ==
    \E n \in DOMAIN result.rows : GroupKey(df[result.rows[n]]) = GroupKey(df[i])

HasCategoryOf(result, i) ==
    \E n \in DOMAIN result.rows : df[result.rows[n]].category = df[i].category

\* C14 (as claimed): a record whose category is outside the list of load_data
\* is kept in the collection, and get_cheapest_products and
\* get_cheapest_overall produce no entry for that category.
C14_UnknownCategoryExcluded ==
    /\ load_pc \in {"loaded", "selected"} =>
          \A i \in DOMAIN origin :
              origin[i].given # Missing => df[i].category = origin[i].given[1]
    /\ cheapest.kind = "rows" =>
          \A n \in DOMAIN cheapest.rows :
              df[cheapest.rows[n]].category \in KnownCategories
    /\ cheapest_overall.kind = "rows" =>
          \A n \in DOMAIN cheapest_overall.rows :
              df[cheapest_overall.rows[n]].category \in KnownCategories

\* C14 (amended): a record whose category is outside the list of load_data
\* is kept in the collection with that category and is grouped like every
\* other record: whenever get_cheapest_products returns, its result has an
\* entry for the record's (store, category) group, and whenever
\* get_cheapest_overall returns, its result has an entry for the record's
\* category.
C14_UnknownCategoryGrouped ==
    /\ load_pc \in {"loaded", "selected"} =>
          /\ Len(df) = Len(origin)
          /\ \A i \in DOMAIN origin :
                origin[i].given # Missing => df[i].category = origin[i].given[1]
    /\ cheapest.kind = "rows" =>
          \A i \in DOMAIN df :
              df[i].category \notin KnownCategories => HasGroupOf(cheapest, i)
    /\ cheapest_overall.kind = "rows" =>
          \A i \in DOMAIN df :
              df[i].category \notin KnownCategories => HasCategoryOf(cheapest_overall, i)

\* C14 witness: a record with the category "serum" was loaded together with
\* a record of a listed category, and both selectors returned an entry for
\* "serum".
C14_Witness_Serum ==
    /\ cheapest.kind = "rows" /\ cheapest_overall.kind = "rows"
    /\ \E i \in DOMAIN df : df[i].category \in KnownCategories
    /\ \E n \in DOMAIN cheapest.rows : df[cheapest.rows[n]].category = "serum"
    /\ \E n \in DOMAIN cheapest_overall.rows : df[cheapest_overall.rows[n]].category = "serum"

\* the fixed set of retailers
KnownStores == {Stores[i] : i \in DOMAIN Stores}

\* the store whose directory of sorted_data main hands to the call
StoreOfCall(call) ==
    IF call = "process_target_data" THEN "target"
    ELSE IF call = "process_ulta_data" THEN "ulta"
    ELSE "riteaid"

C16_CategoryGivenOrFromDirectory ==
    /\ Len(loaded_products) = Len(origin)
    /\ \A i \in DOMAIN loaded_products :
          loaded_products[i].category =
              IF origin[i].given # Missing THEN origin[i].given
              ELSE Present(origin[i].dir)
    /\ \A k \in DOMAIN conc_pc :
          (conc_pc[k] = "returned" /\ conc_calls[k].store = "riteaid") =>
              \E e \in conc_fs :
                  /\ e.dir = <<"sorted_data", "riteaid", conc_calls[k].category>>
                  /\ e.file = <<"riteaid", "_">>
                                \o (IF conc_calls[k].file.category # Missing
                                    THEN conc_calls[k].file.category[1] ELSE <<"blush">>)
                                \o <<".", "json">>

\* C16 witness: load_data has read, from the directory of "blush", a product
\* with the category "serum" and kept it, and a product without a category,
\* which got "blush".
C16_Witness_KeptAndAdded ==
    \E i, j \in DOMAIN loaded_products :
        /\ origin[i].dir = "blush" /\ origin[i].given = Present("serum")
        /\ loaded_products[i].category = Present("serum")
        /\ origin[j].dir = "blush" /\ origin[j].given = Missing
        /\ loaded_products[j].category = Present("blush")

\* C17 (as claimed): the category identifier the parsers produce is the
\* heading in lower case with every run of one or more blanks between words
\* turned into a single underscore.
C17_SeparatorsCollapsed ==
    category_id.kind = "id" =>
        category_id.id = CollapseBlanks(Lower(Strip(category_name)))

\* C18: after main of organize.py has completed, sorted_data holds only
\* files written by that run: nothing an earlier run left is still there.
C18_FreshCollection ==
    main_pc = "done" => \A e \in sorted_data : e.run = "this"

\* C18 witness: main has completed on a tree that held a file of an earlier
\* run; it wrote files of its own, and the earlier file is gone.
C18_Witness_EarlierGone ==
    /\ main_pc = "done"
    /\ earlier # {}
    /\ sorted_data # {}
    /\ \A e \in earlier : ~\E f \in sorted_data : f.dir = e.dir /\ f.file = e.file

\* the tree after call a has run to its end and then call b
Sequential(a, b) ==
    ProcessFile(ProcessFile({}, conc_calls[a].store, conc_calls[a].category,
                            conc_calls[a].file).tree,
                conc_calls[b].store, conc_calls[b].category, conc_calls[b].file).tree

\* C19: two calls of process_<store>_data on independent inputs (another
\* store or another category), run side by side with their steps interleaved
\* in any order and no locking, leave the same files as the two calls run one
\* after the other, in either order.
C19_InterleavingAsSequential ==
    (conc_pc # <<>> /\ \A k \in DOMAIN conc_pc : conc_pc[k] \in {"returned", "raised"}) =>
        /\ conc_fs = Sequential(1, 2)
        /\ conc_fs = Sequential(2, 1)

\* C19 witness: both calls have returned after steps that overlapped, and
\* each has written its file.
C19_Witness_Overlapped ==
    /\ conc_pc # <<>>
    /\ \A k \in DOMAIN conc_pc : conc_pc[k] = "returned"
    /\ overlapped
    /\ Cardinality(conc_fs) = 2
    /\ \E e \in conc_fs : e.records # <<>>

ReturnedOnError ==
    /\ scrape_pc = "returned"
    /\ page_num <= total_pages
    /\ page_products # <<>>

\* the scrape returned after the break at an empty page
ReturnedAtEmptyPage ==
    /\ scrape_pc = "returned"
    /\ page_num > 1
    /\ page_num <= total_pages
    /\ page_products = <<>>

\* C21: scrape_target_products saves progress after each page and on error:
\* after every page that went through the loop, and whenever the function has
\* returned with at least one product collected (normal end, empty page or
\* exception), the output file holds exactly the list all_products
C21_FileHoldsReturnedList ==
    /\ (scrape_pc = "loop" /\ page_num > 1) => saved_file = <<all_products>>
    /\ (scrape_pc = "returned" /\ all_products # <<>>)
           => saved_file = <<all_products>>

\* C21 witness: the function returned through the exception handler with
\* two products collected, and the file holds them
C21_Witness_SavedOnError ==
    /\ ReturnedOnError
    /\ Len(all_products) >= 2
    /\ saved_file = <<all_products>>

\* ------------------------------------------------------------------- C22
\* C22: scrape_target_products processes the pages in increasing order from
\* page 1, never more than max_pages of them whatever page count the site
\* reports, and no page is processed after a page beyond the first that
\* yielded no products
C22_PagesInOrderUpToLimit ==
    /\ \A i \in DOMAIN pages_done : pages_done[i].page = i
    /\ Len(pages_done) <= MaxPages
    /\ \A i \in DOMAIN pages_done :
           (i > 1 /\ ~pages_done[i].yielded)
              => /\ i = Len(pages_done)
                 /\ scrape_pc \in {"final", "returned"}

\* C22 witness: the site reported more pages than max_pages and the loop
\* went through max_pages pages, the last of them empty
C22_Witness_LimitAndEmptyPage ==
    /\ scrape_pc = "returned"
    /\ site_pages > MaxPages
    /\ Len(pages_done) = MaxPages
    /\ ~pages_done[MaxPages].yielded
    /\ pages_done[1].yielded

\* ------------------------------------------------------------------- C23
\* the products a page of results holds, as the caller sees them
ProductsOfResponse(response) ==
    IF response.kind = "page"
    THEN LET named == SelectSeq(response.elements, LAMBDA e : e.title # Missing)
         IN  [i \in DOMAIN named |-> [store |-> "Rite Aid", title |-> named[i].title[1]]]
    ELSE IF response.kind = "result"
    THEN [i \in DOMAIN response.products |->
             [store |-> "Target", title |-> response.products[i].title]]
    ELSE <<>>

\* the products of the first n responses, in page order
RECURSIVE ProductsUpTo(_)
ProductsUpTo(n) ==
    IF n = 0 THEN <<>> ELSE ProductsUpTo(n - 1) \o ProductsOfResponse(responses[n])

\* the request failed: an exception, a status other than 200, no result
FailedRequest(response) == response.kind \in {"error", "failed", "none"}

\* the page holds no product
NoProducts(response) ==
    \/ response.kind = "page" /\ response.elements = <<>>
    \/ response.kind = "result" /\ response.products = <<>>

\* the i-th page fetched is the last page of the results
LastPage(response, i) ==
    \/ response.kind = "page" /\ ~response.next_page_link
    \/ response.kind = "result" /\ i >= response.total_pages

\* at most max_pages pages are fetched, none after a failed request, a page
\* without products or the last page, and the products collected are those
\* of the pages fetched, in page order
FetchedWithinLimit ==
    /\ Len(responses) <= max_pages
    /\ \A i \in 1..(Len(responses) - 1) :
           /\ ~FailedRequest(responses[i])
           /\ ~NoProducts(responses[i])
           /\ ~LastPage(responses[i], i)
    /\ found_products = ProductsUpTo(Len(responses))

FirstOfName ==
    {i \in DOMAIN category_blocks :
        \A j \in 1..(i - 1) : category_blocks[j].name # category_blocks[i].name}

\* the distinct category names of the input
DistinctNames == {category_blocks[i].name : i \in DOMAIN category_blocks}

\* C24: with several blocks of the same category name in the input,
\* process_riteaid_output processes the first of each name and no later one,
\* and the count it returns is the number of distinct category names
C24_FirstBlockOfEachName ==
    riteaid_count.kind = "count"
       => /\ blocks_processed = FirstOfName
          /\ riteaid_count.n = Cardinality(DistinctNames)

\* ------------------------------------------------------------------- C25
\* C25: every product of every JSON file of the store and category
\* directories appears in the collection load_data returns; no file's
\* records are lost when a directory holds more than one file
C25_NoRecordLost ==
    load_pc \in {"loaded", "selected"}
       => \A i \in DOMAIN listed :
             \E j \in DOMAIN loaded_products : loaded_products[j] = listed[i]

\* ------------------------------------------------------------------- C26
\* the raw payload of the store carries a price for the product of that title
PriceInPayload(store, title) ==
    IF store = "Target"
    THEN /\ raw_products[title] # Missing
         /\ raw_products[title][1].current_retail # Missing
         /\ raw_products[title][1].current_retail[1].kind = "num"
    ELSE PlainMatches(price_texts[title].s) # {}

\* C26: a product whose price is missing from the raw store payload is never
\* selected as the cheapest by get_cheapest_products of
\* makeup_price_comparison; only products that carry a price compete
C26_OnlyPricedSelected ==
    all_results.kind = "list"
       => \A i \in DOMAIN all_results.vs :
             PriceInPayload(all_results.vs[i].store, all_results.vs[i].title)

\* ------------------------------------------------------------------- C27
\* C27: every record extract_products of the Ulta parser builds pairs a
\* brand, a name and a price that were logged for the same product, also
\* when a product of the section has no logged price or brand
C27_SameProductPaired ==
    ulta_products.kind = "list"
       => \A i \in DOMAIN ulta_products.vs :
             /\ ulta_products.vs[i].brand.of = ulta_products.vs[i].name.of
             /\ ulta_products.vs[i].name.of = ulta_products.vs[i].price.of

\* ------------------------------------------------------------------- C28
\* the rows of the routine breakdown of a strategy for a category
RoutineRows(strategy, category) ==
    {k \in DOMAIN routine_df.rows :
        /\ routine_df.rows[k].strategy = strategy
        /\ routine_df.rows[k].category = category}

\* C28: in the routine breakdown, for every category and every store with a
\* priced product in that category, the store's routine and the optimal
\* routine each have a row for the category, and the price of the optimal
\* routine's row is no greater than the price of the store routine's
C28_OptimalNoDearer ==
    routine_df.kind = "rows"
       => \A i \in DOMAIN analysis_df :
             analysis_df[i].price # Missing
                => /\ RoutineRows(StrategyOf(analysis_df[i].store), analysis_df[i].category) # {}
                   /\ RoutineRows("optimal routine", analysis_df[i].category) # {}
                   /\ \A s \in RoutineRows(StrategyOf(analysis_df[i].store),
                                           analysis_df[i].category) :
                      \A o \in RoutineRows("optimal routine", analysis_df[i].category) :
                         NumLE(routine_df.rows[o].price, routine_df.rows[s].price)

\* C28 witness: a breakdown in which a store's routine pays more for a
\* category than the optimal routine does
C28_Witness_StoreDearer ==
    /\ routine_df.kind = "rows"
    /\ \E s, o \in DOMAIN routine_df.rows :
          /\ routine_df.rows[s].strategy # "optimal routine"
          /\ routine_df.rows[o].strategy = "optimal routine"
          /\ routine_df.rows[s].category = routine_df.rows[o].category
          /\ NumLT(routine_df.rows[o].price, routine_df.rows[s].price)

\* ------------------------------------------------------------------- C29
\* C29: in the savings analysis, savings_vs_optimal is not negative for any
\* single-store routine, also when a store has no product in some category
C29_SavingsNotNegative ==
    strategy_totals.kind = "list"
       => \A n \in DOMAIN strategy_totals.vs :
             strategy_totals.vs[n].strategy # "optimal routine"
                => NonNegative(strategy_totals.vs[n].savings_vs_optimal)

====
